---------------------------- MODULE Spec2Model ----------------------------
(***************************************************************************)
(* Model of the spine-ai-app front end:                                    *)
(*   - cornerstoneInit.js  : initCornerstone, a memoised one-shot setup    *)
(*   - DICOMViewer.jsx     : slice viewer (React state + effects)          *)
(*   - reportFormat.js     : markdown/HTML -> sanitised, annotated HTML    *)
(*   - ReportViewer.jsx    : report display and edit session               *)
(*   - electron/main.js    : main window, tray, quit                       *)
(*   - App.jsx (desktop)   : study selection, report and analysis requests *)
(*                                                                         *)
(* The specifications share the variables; each leaves the other           *)
(* components' variables unchanged:                                        *)
(*   SpecInit        calls of initCornerstone                              *)
(*   Spec            one mounted DICOMViewer and its environment           *)
(*   SpecFormat      calls of the functions of reportFormat.js             *)
(*   SpecPlain       calls of htmlToPlainText                              *)
(*   SpecReport      one ReportViewer under its host                       *)
(*   SpecConfidence  renders of the confidence panel                       *)
(*   SpecShell       the Electron main process                             *)
(*   SpecApp         the desktop App and its HTTP requests                 *)
(***************************************************************************)
EXTENDS Integers, Sequences, FiniteSets, Bags, TLC

VARIABLES
    \* ---- cornerstoneInit.js module state
    initialized,      \* let initialized
    initError,        \* let initError (Null or the memoised message)
    registerCalls,    \* number of cornerstone.registerImageLoader attempts
    registerOk,       \* number of attempts that returned normally
    initResults,      \* results returned by initCornerstone, oldest first
    lastThrown,       \* value thrown by the most recent failed attempt
    \* ---- DICOMViewer
    viewer,           \* component state, effect bookkeeping, surface
    lastEvent,        \* the event handled by the last step
    \* ---- ReportViewer
    rv,               \* component state and pending conversions
    rvEvent,          \* the event handled by the last step
    \* ---- reportFormat.js
    fmt,              \* the last call of a report function: input and output
    plain,            \* the last call of htmlToPlainText: input and output
    \* ---- ReportViewer, confidence panel
    structured,       \* the structured prop
    \* ---- Electron main process
    shell,            \* app.isQuitting, the main window, the tray
    \* ---- desktop App
    app               \* the App component's state and its HTTP requests in flight

initVars == <<initialized, initError, registerCalls, registerOk, initResults, lastThrown>>
viewerVars == <<viewer, lastEvent>>
reportVars == <<rv, rvEvent, fmt>>
otherVars == <<plain, structured, shell, app>>
vars == <<initialized, initError, registerCalls, registerOk, initResults, lastThrown,
          viewer, lastEvent, rv, rvEvent, fmt, plain, structured, shell, app>>

Null == "<null>"              \* JavaScript null
Undefined == "<undefined>"    \* JavaScript undefined

(***************************************************************************)
(* Bounds of the model                                                     *)
(***************************************************************************)
MaxCalls == 6       \* calls of initCornerstone
MaxLen == 3         \* longest image sequence
MaxStale == 1       \* superseded loadImage requests still in flight
MaxMounts == 2      \* DICOMViewer instances mounted one after the other
MaxTop == 2         \* top-level nodes of a generated document
MaxApply == 2       \* calls of report functions in a row, each on the last result
MaxCancelled == 1   \* cancelled markdown conversions still in flight
MaxReports == 2     \* reports the host sets on one ReportViewer
MaxNesting == 3     \* depth of the elements of a document saved from the editor
MaxPieces == 4      \* pieces of a string given to htmlToPlainText
MaxRequests == 2    \* HTTP requests of the desktop App in flight

(***************************************************************************)
(* cornerstoneInit.js                                                      *)
(***************************************************************************)

\* Values a failing setup may throw: message is e?.message (Undefined when the
\* value has none), str is String(e).
Thrown(message, str) == [message |-> message, str |-> str]
ThrownValues ==
    { Thrown("registerImageLoader failed", "Error: registerImageLoader failed"),
      Thrown("", "Error"),                 \* new Error('')
      Thrown(Undefined, "loader missing"), \* throw 'loader missing'
      Thrown(Undefined, ""),               \* throw ''
      Thrown(Undefined, "undefined") }     \* throw undefined
NoThrow == Thrown(Undefined, "<none>")

\* JavaScript truthiness of a string-or-undefined value
Truthy(s) == s # "" /\ s # Undefined /\ s # Null

\* e?.message || String(e)
ErrorText(e) == IF Truthy(e.message) THEN e.message ELSE e.str

OkResult == [ok |-> TRUE, error |-> Undefined]
FailResult(msg) == [ok |-> FALSE, error |-> msg]

\* if (initError) return { ok: false, error: initError }
InitErrorMemoised(err) == Truthy(err)

\* if (initialized) return { ok: true }
NeverInitialized(st) == FALSE
AlreadyInitialized(st) == st.initialized

\* One call of initCornerstone() on module state st = [initialized, initError];
\* outcome is NoThrow when registerImageLoader returns, else the value it throws.
\* Yields the new module state, the result and whether setup was attempted.
InitCornerstone(st, outcome) ==
    IF InitErrorMemoised(st.initError)
    THEN [initialized |-> st.initialized, initError |-> st.initError,
          result |-> FailResult(st.initError), attempted |-> FALSE, registered |-> FALSE]
    ELSE IF AlreadyInitialized(st)
    THEN [initialized |-> TRUE, initError |-> st.initError,
          result |-> OkResult, attempted |-> FALSE, registered |-> FALSE]
    ELSE IF outcome = NoThrow
    THEN [initialized |-> TRUE, initError |-> st.initError,
          result |-> OkResult, attempted |-> TRUE, registered |-> TRUE]
    ELSE [initialized |-> st.initialized, initError |-> ErrorText(outcome),
          result |-> FailResult(ErrorText(outcome)), attempted |-> TRUE,
          registered |-> FALSE]

InitState == [initialized |-> initialized, initError |-> initError]

\* The effect of one call on the module variables
ApplyInit(outcome) ==
    LET r == InitCornerstone(InitState, outcome) IN
    /\ initialized' = r.initialized
    /\ initError' = r.initError
    /\ registerCalls' = registerCalls + (IF r.attempted THEN 1 ELSE 0)
    /\ registerOk' = registerOk + (IF r.registered THEN 1 ELSE 0)
    /\ initResults' = Append(initResults, r.result)
    /\ lastThrown' = IF r.attempted /\ ~r.registered THEN outcome ELSE lastThrown

InitModuleInit ==
    /\ initialized = FALSE
    /\ initError = Null
    /\ registerCalls = 0
    /\ registerOk = 0
    /\ initResults = <<>>
    /\ lastThrown = NoThrow


(***************************************************************************)
(* DICOMViewer.jsx                                                         *)
(*                                                                         *)
(* The component is modelled as React 18 runs it under createRoot.  One    *)
(* step of the model is one task of the event loop:                        *)
(*   - a render and its commit (the ref is attached or detached), for new  *)
(*     props or for the state that effects and promise callbacks set; the  *)
(*     effects of that commit run in a later task;                         *)
(*   - the effects of the last commit: the cleanups of the effects whose   *)
(*     dependencies changed, then those effects, in declaration order,     *)
(*     with the values of that render captured in their closures;          *)
(*   - a click or a key: the handler, the effects still pending, the       *)
(*     render of the handler's update alone (updates queued by effects and *)
(*     promise callbacks have a lower priority and are left in the queue), *)
(*     its commit and its effects;                                         *)
(*   - the callbacks of a promise that settles.                            *)
(* The record holds the state with every queued update applied, and in     *)
(* `rendered` what the last committed render read of it.  A render for     *)
(* loading or error alone changes the markup only, which is not modelled.  *)
(* Once the commit that removes the component is done its state is gone:   *)
(* what is left is its request, its keydown listener and its element.      *)
(***************************************************************************)

NoDeps == <<>>          \* an effect that has not run yet

\* Identity of an imageIds array: the one the host passes now, or an earlier one
CurrentSeq == 1
EarlierSeq == 0

\* A loadImage promise with the .then/.catch/.finally chain of one run of the
\* load effect: the slice it was issued for (array gen, index idx), the
\* closure's `cancelled`, and what became of it.
Load(gen, idx, cancelled, status) ==
    [gen |-> gen, idx |-> idx, cancelled |-> cancelled, status |-> status]
NewLoad(gen, idx) == Load(gen, idx, FALSE, "pending")
NoLoad == Load(EarlierSeq, 0, FALSE, "none")     \* the load effect returned no cleanup

\* The image of a slice, and an empty surface
Image(gen, idx) == <<gen, idx>>
NoImage == <<>>

\* Values that cornerstone.enable, displayImage and resize throw and that
\* loadImage rejects with
ViewerThrown ==
    { Thrown("boom", "Error: boom"),     \* new Error('boom')
      Thrown("", "Error") }              \* new Error('')

\* e?.message || fallback
MessageOr(e, fallback) == IF Truthy(e.message) THEN e.message ELSE fallback

\* The state that the effects, the handlers and the choice of the rendered
\* branch read, with the useState initial values.  loading and error are read
\* by the returned markup only.
InitialState == [currentIndex |-> 0, enabled |-> FALSE, initFailed |-> Null]

\* A component instance before its first render.  cur is the load whose
\* cleanup the load effect last returned; stale holds the cancelled loads that
\* have not settled yet; passive tells what the last commit left to run;
\* csEnabled and displayed describe the element the ref was last attached to.
\* initOutcome is what registerImageLoader does when this instance calls
\* initCornerstone; enableThrew is what the call of cornerstone.enable in the
\* last task threw, and enableFailed tells that the last call of
\* cornerstone.enable by this instance threw.
NewViewer(gen, len) ==
    [ mounted |-> TRUE, gen |-> gen, len |-> len,
      currentIndex |-> 0, loading |-> FALSE, error |-> Null,
      enabled |-> FALSE, initFailed |-> Null,
      rendered |-> InitialState, passive |-> "none",
      elementRef |-> FALSE, initRan |-> FALSE,
      depsLoad |-> NoDeps, cur |-> NoLoad, stale |-> EmptyBag,
      depsBind |-> NoDeps, cleanupBind |-> FALSE,
      depsKey |-> NoDeps, keyBound |-> FALSE,
      csEnabled |-> FALSE, displayed |-> NoImage,
      enableOnEnabled |-> FALSE, disableOnDisabled |-> FALSE,
      enableThrew |-> NoThrow, enableFailed |-> FALSE,
      initOutcome |-> NoThrow ]

UnmountedViewer == [ NewViewer(EarlierSeq, 0) EXCEPT !.mounted = FALSE ]

\* const totalSlices = Array.isArray(imageIds) ? imageIds.length : 0
totalSlices(v) == v.len

\* imageIds[currentIndex] is a string
UrlDefined(v) == v.currentIndex \in 0..(v.len - 1)

\* The surface <div ref={elementRef}> is rendered only by the last return
SurfaceRendered(v) == v.mounted /\ v.initFailed = Null /\ v.len > 0

\* const goPrev = () => setCurrentIndex((i) => (i <= 0 ? totalSlices - 1 : i - 1))
goPrev(i, n) == IF i <= 0 THEN n - 1 ELSE i - 1
\* const goNext = () => setCurrentIndex((i) => (i >= totalSlices - 1 ? 0 : i + 1))
goNextWrong(i, n) == IF i >= n THEN 0 ELSE i + 1
goNext(i, n) == IF i >= n - 1 THEN 0 ELSE i + 1

\* if (cancelled) return      (and the two !cancelled tests)
Cancelled(l) == l.cancelled

\* return () => { cancelled = true }
\* A chain whose `cancelled` is set returns at once, whichever slice it was
\* issued for; of a cancelled request for a slice of an earlier array the
\* index is not kept.
Superseded(l) ==
    IF l.gen = EarlierSeq THEN Load(EarlierSeq, 0, TRUE, l.status)
    ELSE [l EXCEPT !.cancelled = TRUE]

CancelLoadKeepsLive(n) ==
    IF n.cur.status = "pending"
    THEN [n EXCEPT !.stale = n.stale (+) SetToBag({n.cur}), !.cur = NoLoad]
    ELSE [n EXCEPT !.cur = NoLoad]
CancelLoad(n) ==
    IF n.cur.status = "pending"
    THEN [n EXCEPT !.stale = n.stale (+) SetToBag({Superseded(n.cur)}),
                   !.cur = NoLoad]
    ELSE [n EXCEPT !.cur = NoLoad]

\* That state with every queued update applied
ReactState(v) ==
    [currentIndex |-> v.currentIndex, enabled |-> v.enabled, initFailed |-> v.initFailed]

\* The component as the last committed render saw it: the values its effects
\* and handlers close over
Closure(v) ==
    [v EXCEPT !.currentIndex = v.rendered.currentIndex,
              !.enabled = v.rendered.enabled,
              !.initFailed = v.rendered.initFailed]

LoadDeps(v) == <<v.currentIndex, v.gen, totalSlices(v), v.enabled>>
BindDeps(v) == <<totalSlices(v), v.enabled>>    \* enableElement changes with enabled
KeyDeps(v) == <<totalSlices(v)>>

\* In the effects below v is the render they close over and n the component
\* so far: what they set is queued on n.

InitEffectIgnoresFailure(v, n, env) ==
    IF v.initRan THEN n ELSE [n EXCEPT !.initRan = TRUE]

\* useEffect(() => { const result = initCornerstone(); ... }, [])
InitEffect(v, n, env) ==
    IF v.initRan THEN n
    ELSE [n EXCEPT !.initRan = TRUE,
                   !.initFailed = IF env.initResult.ok THEN n.initFailed
                                  ELSE IF Truthy(env.initResult.error)
                                       THEN env.initResult.error
                                       ELSE "Viewer failed to initialize"]

\* Cleanup of the load effect
LoadCleanup(v, n) ==
    IF v.depsLoad # LoadDeps(v) THEN CancelLoad(n) ELSE n

LoadEffectKeepsError(v, n) ==
    IF v.depsLoad = LoadDeps(v) THEN n
    ELSE IF ~n.elementRef \/ totalSlices(v) = 0 \/ ~v.enabled \/ ~UrlDefined(v)
    THEN [n EXCEPT !.depsLoad = LoadDeps(v)]
    ELSE [n EXCEPT !.depsLoad = LoadDeps(v),
                   !.loading = TRUE,
                   !.cur = NewLoad(v.gen, v.currentIndex)]

\* Body of the load effect
LoadEffect(v, n) ==
    IF v.depsLoad = LoadDeps(v) THEN n
    ELSE IF ~n.elementRef \/ totalSlices(v) = 0 \/ ~v.enabled \/ ~UrlDefined(v)
    THEN [n EXCEPT !.depsLoad = LoadDeps(v)]
    ELSE [n EXCEPT !.depsLoad = LoadDeps(v),
                   !.loading = TRUE,
                   !.error = Null,
                   !.cur = NewLoad(v.gen, v.currentIndex)]

\* Cleanup of the enable/disable effect; it closes over the `enabled` of the
\* render that registered it and reads elementRef.current when it runs.
BindCleanup(v, n) ==
    IF v.depsBind # BindDeps(v) /\ v.depsBind # NoDeps /\ n.elementRef /\ v.cleanupBind
    THEN [n EXCEPT !.disableOnDisabled = n.disableOnDisabled \/ ~n.csEnabled,
                   !.csEnabled = FALSE,
                   !.displayed = NoImage,
                   !.enabled = FALSE]
    ELSE n

enableElementAgain(v, n, env) ==
    IF ~n.elementRef THEN n
    ELSE IF env.enable # NoThrow
    THEN [n EXCEPT !.error = MessageOr(env.enable, "Failed to enable viewer"),
                   !.enableThrew = env.enable,
                   !.enableFailed = TRUE]
    ELSE [n EXCEPT !.enableOnEnabled = n.enableOnEnabled \/ n.csEnabled,
                   !.csEnabled = TRUE,
                   !.enabled = TRUE,
                   !.enableFailed = FALSE]

\* const enableElement = useCallback(() => { ... }, [enabled])
\* env.enable is what cornerstone.enable does in this call: it returns
\* (NoThrow) or throws the value.
enableElement(v, n, env) ==
    IF ~n.elementRef \/ v.enabled THEN n
    ELSE IF env.enable # NoThrow
    THEN [n EXCEPT !.error = MessageOr(env.enable, "Failed to enable viewer"),
                   !.enableThrew = env.enable,
                   !.enableFailed = TRUE]
    ELSE [n EXCEPT !.enableOnEnabled = n.enableOnEnabled \/ n.csEnabled,
                   !.csEnabled = TRUE,
                   !.enabled = TRUE,
                   !.enableFailed = FALSE]

\* Body of the enable/disable effect
BindEffect(v, n, env) ==
    IF v.depsBind = BindDeps(v) THEN n
    ELSE LET m == IF totalSlices(v) > 0 /\ n.elementRef THEN enableElement(v, n, env) ELSE n
         IN [m EXCEPT !.depsBind = BindDeps(v), !.cleanupBind = v.enabled]

\* Keyboard effect: if (totalSlices <= 1) return; window.addEventListener(...)
KeyEffect(v, n) ==
    IF v.depsKey = KeyDeps(v) THEN n
    ELSE [n EXCEPT !.depsKey = KeyDeps(v), !.keyBound = totalSlices(v) > 1]

\* The effects of the last commit have something to do
EffectsDue(v) ==
    LET r == Closure(v)
    IN  \/ ~v.initRan
        \/ v.depsLoad # LoadDeps(r)
        \/ v.depsBind # BindDeps(r)
        \/ v.depsKey # KeyDeps(r)

\* The commit of a render of v that read the state r: the ref follows the
\* branch that was rendered.  A surface that is rendered again after a render
\* without it is another element: not enabled, and empty.
Commit(v, r) ==
    LET n == [v EXCEPT !.rendered = r]
        shown == SurfaceRendered(Closure(n))
        fresh == shown /\ ~v.elementRef
        c == [n EXCEPT !.elementRef = shown,
                       !.csEnabled = IF fresh THEN FALSE ELSE @,
                       !.displayed = IF fresh THEN NoImage ELSE @]
    IN  [c EXCEPT !.passive = IF EffectsDue(c) THEN "effects" ELSE "none"]

\* The effects of the last commit of a mounted component
Effects(v, env) ==
    LET r == Closure(v)
        n1 == BindCleanup(r, LoadCleanup(r, v))
        n2 == InitEffect(r, n1, env)
        n3 == LoadEffect(r, n2)
        n4 == BindEffect(r, n3, env)
    IN  [KeyEffect(r, n4) EXCEPT !.passive = "none"]

\* The cleanups of a component that was removed: the ref is null by then, so
\* the cleanup of the enable/disable effect does nothing.  React drops the
\* state of the component; the element stays as cornerstone knows it, and the
\* requests stay in flight.
Unmounted(v) ==
    [UnmountedViewer EXCEPT !.stale = CancelLoad(v).stale,
                            !.csEnabled = v.csEnabled,
                            !.displayed = v.displayed,
                            !.enableOnEnabled = v.enableOnEnabled,
                            !.disableOnDisabled = v.disableOnDisabled]

\* The commit that removes the component: the ref is detached and React drops
\* the component's state, so that what its callbacks set from now on is
\* ignored; the load effect's request and the keydown listener stay until the
\* cleanups run.
Detached(v) ==
    [UnmountedViewer EXCEPT !.mounted = TRUE,
                            !.passive = "unmount",
                            !.cur = v.cur,
                            !.stale = v.stale,
                            !.depsKey = v.depsKey,
                            !.keyBound = v.keyBound,
                            !.csEnabled = v.csEnabled,
                            !.displayed = v.displayed,
                            !.enableOnEnabled = v.enableOnEnabled,
                            !.disableOnDisabled = v.disableOnDisabled]

\* What the last commit left to run, run now
RunPending(v, env) ==
    IF v.passive = "effects" THEN Effects(v, env)
    ELSE IF v.passive = "unmount" THEN Unmounted(v)
    ELSE v

\* A handler called setCurrentIndex with an updater that gives i.  React runs
\* the effects that are pending, renders the new index with the rest of the
\* state as last rendered, commits and runs the effects of that commit; when
\* the index is the same it does nothing.
Handled(v, i, env) ==
    IF i = v.currentIndex THEN v
    ELSE LET f == RunPending(v, env)
             c == Commit([f EXCEPT !.currentIndex = i],
                         [f.rendered EXCEPT !.currentIndex = i])
         IN  RunPending(c, env)

\* The promise chain of one load settles.  outcome: "ok", loadImage resolved and
\* the image is displayed; "displayThrows", it resolved and displayImage
\* throws; "resizeThrows", displayImage returned and resize throws; "reject",
\* loadImage rejected.  displayImage throws on an element that is not enabled.
\* e is the value thrown or rejected with.
Outcomes == {"ok", "displayThrows", "resizeThrows", "reject"}
\* The chain of a cancelled load returns before displayImage is called
OutcomesOf(l) == IF l.cancelled THEN {"ok", "reject"} ELSE Outcomes

SettleWaitsForOthers(v, l, outcome, e) ==
    IF Cancelled(l)
    THEN v
    ELSE IF outcome = "reject"
    THEN [v EXCEPT !.cur.status = "rejected",
                   !.error = MessageOr(e, "Failed to load image"),
                   !.loading = FALSE]
    ELSE IF outcome = "displayThrows" \/ ~v.csEnabled
    THEN [v EXCEPT !.cur.status = "displayFailed",
                   !.error = MessageOr(e, "Failed to display image"),
                   !.loading = FALSE]
    ELSE [v EXCEPT !.cur.status = "displayed",
                   !.displayed = IF v.stale = EmptyBag THEN Image(l.gen, l.idx) ELSE v.displayed,
                   !.error = IF outcome = "resizeThrows"
                             THEN MessageOr(e, "Failed to display image") ELSE v.error,
                   !.loading = v.stale # EmptyBag]

Settle(v, l, outcome, e) ==
    IF Cancelled(l)
    THEN v
    ELSE IF outcome = "reject"
    THEN [v EXCEPT !.cur.status = "rejected",
                   !.error = MessageOr(e, "Failed to load image"),
                   !.loading = FALSE]
    ELSE IF outcome = "displayThrows" \/ ~v.csEnabled
    THEN [v EXCEPT !.cur.status = "displayFailed",
                   !.error = MessageOr(e, "Failed to display image"),
                   !.loading = FALSE]
    ELSE IF outcome = "resizeThrows"
    THEN [v EXCEPT !.cur.status = "displayed",
                   !.displayed = Image(l.gen, l.idx),
                   !.error = MessageOr(e, "Failed to display image"),
                   !.loading = FALSE]
    ELSE [v EXCEPT !.cur.status = "displayed",
                   !.displayed = Image(l.gen, l.idx),
                   !.loading = FALSE]

\* if (e.key === 'ArrowLeft' || e.key === 'j' || e.key === 'J') ... else if ...
PrevKeys == {"ArrowLeft", "j", "J"}
NextKeys == {"ArrowRight", "k", "K"}
Keys == PrevKeys \cup NextKeys \cup {"Enter"}

\* The index after handleKey: i is the index, n the totalSlices of the render
\* whose goPrev and goNext the listener closes over
handleKey(i, n, key, inEditable) ==
    IF inEditable THEN i
    ELSE IF key \in PrevKeys THEN goPrev(i, n)
    ELSE IF key \in NextKeys THEN goNext(i, n)
    ELSE i

\* The totalSlices the keydown listener closes over: that of the render for
\* which the keyboard effect last ran
ListenerSlices(v) == v.depsKey[1]

\* What the effects of one task meet: the result of the call of
\* initCornerstone that the init effect of v makes, and what cornerstone.enable
\* does when the enable/disable effect calls it
Env(initResult, enable) == [initResult |-> initResult, enable |-> enable]
EnvOf(v, enable) == Env(InitCornerstone(InitState, v.initOutcome).result, enable)
\* The effects that are pending call cornerstone.enable
CallsEnable(v) ==
    LET r == Closure(v)
    IN  /\ v.mounted /\ v.passive = "effects"
        /\ v.depsBind # BindDeps(r)
        /\ totalSlices(r) > 0 /\ v.elementRef /\ ~r.enabled
\* The step runs the init effect of v
CallsInit(v) == v.mounted /\ v.passive = "effects" /\ ~v.initRan
ModuleStep(v) == IF CallsInit(v) THEN ApplyInit(v.initOutcome) ELSE UNCHANGED initVars

\* What the last step handled
Did(type) == [type |-> type]

\* The props change to another imageIds array: what referred to the array so
\* far (loads in flight, the image on the surface, the dependencies of the last
\* run of the load effect) now refers to an earlier array.
Earlier(l) == IF l.cancelled THEN Superseded([l EXCEPT !.gen = EarlierSeq])
              ELSE [l EXCEPT !.gen = EarlierSeq]
RECURSIVE BagSum(_, _, _)
BagSum(B, S, m) ==
    IF S = {} THEN 0
    ELSE LET l == CHOOSE x \in S : TRUE
         IN (IF Earlier(l) = m THEN B[l] ELSE 0) + BagSum(B, S \ {l}, m)
EarlierBag(B) ==
    [ m \in { Earlier(l) : l \in BagToSet(B) } |-> BagSum(B, BagToSet(B), m) ]
NewProps(v, len) ==
    [v EXCEPT !.len = len,
              !.cur = IF v.cur = NoLoad THEN NoLoad ELSE Earlier(v.cur),
              !.stale = EarlierBag(v.stale),
              !.displayed = IF v.displayed = NoImage THEN NoImage
                            ELSE Image(EarlierSeq, v.displayed[2]),
              !.depsLoad = IF v.depsLoad = NoDeps THEN NoDeps
                           ELSE [v.depsLoad EXCEPT ![2] = EarlierSeq]]

\* ---- steps

\* The component at the start of a task: enableOnEnabled, disableOnDisabled
\* and enableThrew tell what the last task did.  The steps that run effects
\* take what cornerstone.enable does (enable) as an input, which matters only
\* when the effects call it.
Task(v) == [v EXCEPT !.enableOnEnabled = FALSE, !.disableOnDisabled = FALSE,
                     !.enableThrew = NoThrow]

\* The host renders <DICOMViewer imageIds=... />: the first render of a new
\* instance and its commit.  The host does so after an await (setView('study')),
\* so the effects of this commit run in a later task.  The cleanups of an
\* instance that was removed run before the render, and its requests stay in
\* flight.
Mount(len, outcome) ==
    /\ ~viewer.mounted \/ viewer.passive = "unmount"
    /\ Len(initResults) < MaxMounts
    /\ LET old == RunPending(Task(viewer), EnvOf(viewer, NoThrow))
           new == [NewViewer(CurrentSeq, len) EXCEPT
                      !.initOutcome = outcome,
                      !.stale = EarlierBag(old.stale),
                      !.enableOnEnabled = old.enableOnEnabled,
                      !.disableOnDisabled = old.disableOnDisabled]
       IN /\ BagCardinality(new.stale) <= MaxStale
          /\ viewer' = Commit(new, ReactState(new))
    /\ lastEvent' = Did("mount")
    /\ UNCHANGED <<initVars, reportVars, otherVars>>

\* The task React scheduled for the effects of the last commit
EffectsRun(enable) ==
    /\ viewer.mounted /\ viewer.passive = "effects"
    /\ enable = NoThrow \/ CallsEnable(viewer)
    /\ LET n == Effects(Task(viewer), EnvOf(viewer, enable))
       IN /\ BagCardinality(n.stale) <= MaxStale
          /\ viewer' = n
    /\ ModuleStep(viewer)
    /\ lastEvent' = Did("effects")
    /\ UNCHANGED <<reportVars, otherVars>>

\* The host stops rendering the component: the commit removes the surface and
\* detaches the ref; the cleanups run in a later task, or at once when a click
\* caused the render (discrete, handleBackToWorklist)
Unmount(discrete, enable) ==
    /\ viewer.mounted /\ viewer.passive # "unmount"
    /\ enable = NoThrow \/ CallsEnable(viewer)
    /\ LET f == RunPending(Task(viewer), EnvOf(viewer, enable))
           c == Detached(f)
           n == IF discrete THEN Unmounted(c) ELSE c
       IN /\ BagCardinality(n.stale) <= MaxStale
          /\ viewer' = n
    /\ ModuleStep(viewer)
    /\ lastEvent' = Did("unmount")
    /\ UNCHANGED <<reportVars, otherVars>>

\* The task React scheduled for the cleanups of the removed component
CleanupsRun ==
    /\ viewer.mounted /\ viewer.passive = "unmount"
    /\ viewer' = Unmounted(Task(viewer))
    /\ BagCardinality(viewer'.stale) <= MaxStale
    /\ lastEvent' = Did("cleanups")
    /\ UNCHANGED <<initVars, reportVars, otherVars>>

\* React renders the state that effects set since the last render, and commits
Rerender ==
    /\ viewer.mounted /\ viewer.passive = "none"
    /\ ReactState(viewer) # viewer.rendered
    /\ viewer' = Commit(Task(viewer), ReactState(viewer))
    /\ lastEvent' = Did("render")
    /\ UNCHANGED <<initVars, reportVars, otherVars>>

\* The host passes another imageIds array: the effects still pending, one
\* render and its commit.  With discrete the render is that of a click
\* (setMetadata(null) in handleUpload): it leaves the queued updates in the
\* queue, and the effects of its commit run in the same task.
SetImageIds(len, discrete, enable) ==
    /\ viewer.mounted /\ viewer.passive # "unmount"
    /\ discrete => len = 0
    /\ enable = NoThrow \/ CallsEnable(viewer)
    /\ LET f == NewProps(RunPending(Task(viewer), EnvOf(viewer, enable)), len)
           c == Commit(f, IF discrete THEN f.rendered ELSE ReactState(f))
           n == IF discrete THEN RunPending(c, EnvOf(viewer, enable)) ELSE c
       IN /\ BagCardinality(n.stale) <= MaxStale
          /\ viewer' = n
    /\ ModuleStep(viewer)
    /\ lastEvent' = Did("setImageIds")
    /\ UNCHANGED <<reportVars, otherVars>>

\* Click on Prev / Next, in the DOM with the surface and disabled when
\* totalSlices <= 1
Navigate(type, enable) ==
    /\ viewer.mounted /\ viewer.passive # "unmount" /\ viewer.elementRef
    /\ totalSlices(viewer) > 1
    /\ enable = NoThrow \/ CallsEnable(viewer)
    /\ LET i == IF type = "goNext" THEN goNext(viewer.currentIndex, totalSlices(viewer))
                ELSE goPrev(viewer.currentIndex, totalSlices(viewer))
           n == Handled(Task(viewer), i, EnvOf(viewer, enable))
       IN /\ BagCardinality(n.stale) <= MaxStale
          /\ viewer' = n
    /\ ModuleStep(viewer)
    /\ lastEvent' = Did(type)
    /\ UNCHANGED <<reportVars, otherVars>>

\* A keydown event reaches the window listener, which closes over the
\* goPrev and goNext of the render for which the keyboard effect last ran.
\* The listener of a component that was removed stays bound until its
\* cleanups run; its update is ignored.
KeyDown(key, inEditable, enable) ==
    /\ viewer.keyBound
    /\ enable = NoThrow \/ CallsEnable(viewer)
    /\ LET i == handleKey(viewer.currentIndex, ListenerSlices(viewer), key, inEditable)
           n == IF viewer.passive = "unmount" THEN Task(viewer)
                ELSE Handled(Task(viewer), i, EnvOf(viewer, enable))
       IN /\ BagCardinality(n.stale) <= MaxStale
          /\ viewer' = n
    /\ lastEvent' = Did("key")
    /\ UNCHANGED <<initVars, reportVars, otherVars>>

\* The promise of the load the effect last issued settles
LoadSettles(outcome, e) ==
    /\ viewer.cur.status = "pending"
    /\ viewer' = LET n == Settle(Task(viewer), viewer.cur, outcome, e)
                 IN  IF viewer.passive = "unmount" THEN Detached(n) ELSE n
    /\ lastEvent' = Did("settle")
    /\ UNCHANGED <<initVars, reportVars, otherVars>>

\* The promise of a superseded load settles
StaleLoadSettles(l, outcome, e) ==
    /\ BagIn(l, viewer.stale)
    /\ outcome \in OutcomesOf(l)
    /\ viewer' = [Settle(Task(viewer), l, outcome, e) EXCEPT !.stale = viewer.stale (-) SetToBag({l})]
    /\ lastEvent' = Did("staleSettle")
    /\ UNCHANGED <<initVars, reportVars, otherVars>>

(***************************************************************************)
(* reportFormat.js                                                         *)
(*                                                                         *)
(* A string of HTML is modelled by the sequence of nodes it parses to and  *)
(* serialises from: adjacent text nodes are one text node, and a text node *)
(* is never empty.  Text is a sequence of tokens: words, single            *)
(* punctuation characters, " " and "\n"; two "\n" in a row are a blank line. *)
(* The tokens of a text joined are its string: includes, length and the    *)
(* regular expressions work on the characters of that string.              *)
(* A source is HTML when it starts with an element and markdown when it is *)
(* text; markdown with inline HTML is outside the model.                   *)
(***************************************************************************)

TextTag == "#text"
Text(toks) == [tag |-> TextTag, cls |-> <<>>, attrs |-> {}, kids |-> <<>>, text |-> toks]
\* <tag class="cls" attrs...>kids</tag>; attrs are the attributes other than class
Elem(tag, cls, attrs, kids) == [tag |-> tag, cls |-> cls, attrs |-> attrs, kids |-> kids, text |-> <<>>]
El(tag, kids) == Elem(tag, <<>>, {}, kids)
IsText(n) == n.tag = TextTag
IsElement(n) == n.tag # TextTag

EmptyString == <<>>
\* null, and a value that is neither null nor a string (an object of the API's JSON)
NullValue == << [tag |-> "#null", cls |-> <<>>, attrs |-> {}, kids |-> <<>>, text |-> <<>>] >>
NotAString == << [tag |-> "#object", cls |-> <<>>, attrs |-> {}, kids |-> <<>>, text |-> <<>>] >>
\* typeof content === 'string'
IsString(x) == x \notin {NullValue, NotAString}

WhiteSpace == {" ", "\n"}
\* Punctuation and white space: the characters that are not word characters
NonWord == WhiteSpace \cup {":", ".", ",", ";", "(", ")"}

\* String.prototype.trim on text
RECURSIVE TrimLeft(_)
TrimLeft(t) == IF t # <<>> /\ Head(t) \in WhiteSpace THEN TrimLeft(Tail(t)) ELSE t
RECURSIVE TrimRight(_)
TrimRight(t) ==
    IF t # <<>> /\ t[Len(t)] \in WhiteSpace THEN TrimRight(SubSeq(t, 1, Len(t) - 1)) ELSE t
TrimText(t) == TrimRight(TrimLeft(t))

\* String.prototype.trim on a string of HTML
TrimStart(s) ==
    IF s = <<>> \/ IsElement(Head(s)) THEN s
    ELSE IF TrimLeft(Head(s).text) = <<>> THEN Tail(s)
    ELSE <<Text(TrimLeft(Head(s).text))>> \o Tail(s)
TrimEnd(s) ==
    IF s = <<>> \/ IsElement(s[Len(s)]) THEN s
    ELSE IF TrimRight(s[Len(s)].text) = <<>> THEN SubSeq(s, 1, Len(s) - 1)
    ELSE SubSeq(s, 1, Len(s) - 1) \o <<Text(TrimRight(s[Len(s)].text))>>
NoTrim(s) == s
trim(s) == TrimEnd(TrimStart(s))

\* trimmed.startsWith('<')
startsWithLt(s) == s # <<>> /\ IsElement(Head(s))

\* Serialisation of a node list (innerHTML): text nodes that meet are one run
\* of text, an empty text node leaves no trace.
RECURSIVE innerHTML(_)
innerHTML(s) ==
    IF s = <<>> THEN <<>>
    ELSE LET n == Head(s)
             rest == innerHTML(Tail(s))
         IN  IF IsElement(n) THEN <<[n EXCEPT !.kids = innerHTML(n.kids)]>> \o rest
             ELSE IF n.text = <<>> THEN rest
             ELSE IF rest # <<>> /\ IsText(Head(rest))
                  THEN <<Text(n.text \o Head(rest).text)>> \o Tail(rest)
             ELSE <<n>> \o rest

\* node.textContent
RECURSIVE textContent(_)
RECURSIVE TextOf(_)
textContent(n) == IF IsText(n) THEN n.text ELSE TextOf(n.kids)
TextOf(s) == IF s = <<>> THEN <<>> ELSE textContent(Head(s)) \o TextOf(Tail(s))

\* ---- strings.  The characters of a text are those of its tokens, in a row;
\* a string is handled as the sequence of its characters.
RECURSIVE Join(_)
Join(t) == IF t = <<>> THEN "" ELSE Head(t) \o Join(Tail(t))
Chars(str) == [i \in 1..Len(str) |-> SubSeq(str, i, i)]
CharsOf(t) == Chars(Join(t))
\* text.length
StrLen(t) == Len(Join(t))

LowerLetters == Chars("abcdefghijklmnopqrstuvwxyz")
UpperLetters == Chars("ABCDEFGHIJKLMNOPQRSTUVWXYZ")
Digits == Chars("0123456789")
LowerOf == [c \in {UpperLetters[k] : k \in 1..26} |->
               LowerLetters[CHOOSE k \in 1..26 : UpperLetters[k] = c]]
UpperOf == [c \in {LowerLetters[k] : k \in 1..26} |->
               UpperLetters[CHOOSE k \in 1..26 : LowerLetters[k] = c]]
\* String.prototype.toLowerCase / toUpperCase
toLowerCase(cs) == [i \in DOMAIN cs |-> IF cs[i] \in DOMAIN LowerOf THEN LowerOf[cs[i]] ELSE cs[i]]
toUpperCase(cs) == [i \in DOMAIN cs |-> IF cs[i] \in DOMAIN UpperOf THEN UpperOf[cs[i]] ELSE cs[i]]

\* ---- regular expressions
\* \w
WordChars == DOMAIN LowerOf \cup DOMAIN UpperOf \cup {Digits[k] : k \in 1..10} \cup {"_"}
\* ---- DOMPurify.sanitize(raw, { ALLOWED_TAGS, ALLOWED_ATTR })
AllowedTags == {"h1", "h2", "h3", "h4", "p", "br", "strong", "em", "b", "i", "u",
                "ul", "ol", "li", "span", "div", "blockquote", "hr"}
AllowedAttr == {"class"}
\* DOMPurify's default FORBID_CONTENTS: elements that are removed together with
\* their content; the content of any other element that is not allowed takes
\* the element's place (KEEP_CONTENT).
ForbidContents == {"annotation-xml", "audio", "colgroup", "desc", "foreignobject", "head",
                   "iframe", "math", "mi", "mn", "mo", "ms", "mtext", "noembed", "noframes",
                   "noscript", "plaintext", "script", "style", "svg", "template", "thead",
                   "title", "video", "xmp"}

\* The attribute name starts with prefix and goes on with one or more
\* characters of [\-\w]
Prefixed(name, prefix) ==
    /\ Len(name) > Len(prefix)
    /\ SubSeq(name, 1, Len(prefix)) = prefix
    /\ \A i \in (Len(prefix) + 1)..Len(name) : SubSeq(name, i, i) \in WordChars \cup {"-"}
\* _isValidAttribute with ALLOW_DATA_ATTR and ALLOW_ARIA_ATTR left at their
\* default, true: an attribute matching DATA_ATTR = /^data-[\-\w.\u00B7-\uFFFF]+$/
\* (names of [\-\w] here) or ARIA_ATTR = /^aria-[\-\w]+$/ is kept whatever
\* ALLOWED_ATTR lists; any other attribute is kept when ALLOWED_ATTR lists it
ValidAttribute(name, attr) ==
    Prefixed(name, "data-") \/ Prefixed(name, "aria-") \/ name \in attr

RECURSIVE SanitizeNodes(_, _, _)
SanitizeNodes(s, tags, attr) ==
    IF s = <<>> THEN <<>>
    ELSE LET n == Head(s)
             rest == SanitizeNodes(Tail(s), tags, attr)
         IN  IF IsText(n) THEN <<n>> \o rest
             ELSE IF n.tag \in tags
                  THEN <<Elem(n.tag, IF "class" \in attr THEN n.cls ELSE <<>>,
                              {a \in n.attrs : ValidAttribute(a, attr)},
                              SanitizeNodes(n.kids, tags, attr))>> \o rest
             ELSE IF n.tag \in ForbidContents THEN rest
             ELSE SanitizeNodes(n.kids, tags, attr) \o rest

Sanitize(raw) == innerHTML(SanitizeNodes(raw, AllowedTags, AllowedAttr))

\* \b ahead of character i of cs
Bounded(cs, i) ==
    (i - 1 \in DOMAIN cs /\ cs[i - 1] \in WordChars) # (i \in DOMAIN cs /\ cs[i] \in WordChars)
\* The alternative alt (a string) matches cs at i, with \b on both sides
MatchesAt(cs, i, alt) ==
    /\ i + Len(alt) - 1 <= Len(cs)
    /\ \A j \in DOMAIN alt : cs[i + j - 1] = alt[j]
    /\ Bounded(cs, i)
    /\ Bounded(cs, i + Len(alt))
\* /\b(alt1|alt2|...)\b/i.test(t), the alternatives in lower case
Test(alts, t) ==
    LET lower == toLowerCase(CharsOf(t))
    IN  \E alt \in {Chars(a) : a \in alts} : \E i \in DOMAIN lower : MatchesAt(lower, i, alt)

\* const ABNORMAL_KEYWORDS = /\b(bulge|bulging|...|lesion)\b/i
ABNORMAL_KEYWORDS ==
    {"bulge", "bulging", "herniation", "herniated", "stenosis", "narrowing",
     "compression", "compressed", "effacement", "impingement", "extrusion",
     "sequestration", "degenerative", "tear", "tearing", "abnormal",
     "pathology", "lesion"}
\* const NORMAL_KEYWORDS = /\b(normal|unremarkable|no (evidence of|acute|significant)|intact|preserved|mild)\b/i
NORMAL_KEYWORDS ==
    {"normal", "unremarkable", "no evidence of", "no acute", "no significant",
     "intact", "preserved", "mild"}
\* const levelPattern = /\b(L[1-5]-L[2-5]|L[1-5]-S1)\b/i
levelPattern ==
    {"l" \o ToString(a) \o "-l" \o ToString(b) : a \in 1..5, b \in 2..5}
    \cup {"l" \o ToString(a) \o "-s1" : a \in 1..5}

\* text.length < 800
LevelTextCutoff == 800

\* ---- enhanceReportHtml: section cards
\* title.includes(key)
includes(title, key) ==
    LET k == Chars(key)
    IN  \E i \in 1..(Len(title) - Len(k) + 1) : \A j \in DOMAIN k : title[i + j - 1] = k[j]

\* wrapperClass of an h2, Null when the heading opens no section card
wrapperClass(h2) ==
    LET title == toUpperCase(CharsOf(TrimText(textContent(h2))))
    IN  IF includes(title, "IMPRESSION") \/ includes(title, "CONCLUSION")
            THEN "report-section-impression"
        ELSE IF includes(title, "FINDINGS") \/ includes(title, "FINDING")
            THEN "report-section-findings"
        ELSE Null

IsH2(n) == n.tag = "h2"
NoNextH2(s) == Len(s) + 1
\* Position in s of the first h2, Len(s) + 1 if there is none
NextH2(s) ==
    IF \E i \in DOMAIN s : IsH2(s[i]) THEN CHOOSE i \in DOMAIN s : IsH2(s[i]) /\ \A j \in 1..(i - 1) : ~IsH2(s[j])
    ELSE Len(s) + 1

\* The h2s of one parent, left to right: the wrapper takes the place of the h2
\* and receives the h2 and the element siblings up to the next h2; text nodes
\* between them are not elements and stay in the parent.
RECURSIVE WrapSiblings(_)
WrapSiblings(s) ==
    IF s = <<>> THEN <<>>
    ELSE LET h2 == Head(s)
             rest == Tail(s)
             k == NextH2(rest)
             between == SubSeq(rest, 1, k - 1)
             wrapper == Elem("div", <<wrapperClass(h2)>>, {},
                             <<h2>> \o SelectSeq(between, IsElement))
         IN  IF IsH2(h2) /\ wrapperClass(h2) # Null
             THEN <<wrapper>> \o SelectSeq(between, IsText) \o WrapSiblings(SubSeq(rest, k, Len(rest)))
             ELSE <<h2>> \o WrapSiblings(rest)

\* h2s.forEach(...) over body.querySelectorAll('h2'): every h2 of the document
\* is wrapped with its own siblings, whatever its depth
RECURSIVE WrapSections(_)
WrapSections(s) ==
    WrapSiblings([i \in DOMAIN s |->
        IF IsElement(s[i]) THEN [s[i] EXCEPT !.kids = WrapSections(s[i].kids)] ELSE s[i]])

\* ---- enhanceReportHtml: level tinting
\* node.classList.add(c)
classListAdd(cls, c) == IF \E i \in DOMAIN cls : cls[i] = c THEN cls ELSE Append(cls, c)

LevelClassInclusive(n) ==
    LET text == TrimText(textContent(n))
        hasAbnormal == Test(ABNORMAL_KEYWORDS, text)
        hasNormal == Test(NORMAL_KEYWORDS, text)
    IN  IF n.tag \in {"p", "div"} /\ Test(levelPattern, text) /\ StrLen(text) <= LevelTextCutoff
        THEN IF hasAbnormal /\ ~hasNormal THEN "report-level-abnormal"
             ELSE IF hasNormal \/ ~hasAbnormal THEN "report-level-normal"
             ELSE Null
        ELSE Null

LevelClass(n) ==
    LET text == TrimText(textContent(n))
        hasAbnormal == Test(ABNORMAL_KEYWORDS, text)
        hasNormal == Test(NORMAL_KEYWORDS, text)
    IN  IF n.tag \in {"p", "div"} /\ Test(levelPattern, text) /\ StrLen(text) < LevelTextCutoff
        THEN IF hasAbnormal /\ ~hasNormal THEN "report-level-abnormal"
             ELSE IF hasNormal \/ ~hasAbnormal THEN "report-level-normal"
             ELSE Null
        ELSE Null

RECURSIVE walk(_)
walk(node) ==
    IF IsText(node) THEN node
    ELSE [node EXCEPT
            !.cls = LET level == LevelClass(node)
                    IN  IF level = Null THEN @ ELSE classListAdd(@, level),
            !.kids = [i \in DOMAIN node.kids |-> walk(node.kids[i])]]

\* new DOMParser().parseFromString(html, 'text/html').body: white space ahead of
\* the first content is not part of the body
ParseBody(html) == TrimStart(html)

enhanceReportHtml(html) ==
    IF ~IsString(html) \/ trim(html) = EmptyString THEN EmptyString
    ELSE LET body == WrapSections(ParseBody(html))
         IN  innerHTML([i \in DOMAIN body |-> walk(body[i])])

\* ---- marked.parse(trimmed), with gfm: false (so that breaks has no effect)
Heading == [h \in {"#", "##", "###"} |-> IF h = "#" THEN "h1" ELSE IF h = "##" THEN "h2" ELSE "h3"]
\* The line that starts at token i of t is an ATX heading
HeadingAt(t, i) == i + 1 <= Len(t) /\ t[i] \in DOMAIN Heading /\ t[i + 1] = " "
\* A paragraph ends at a blank line or before a heading line
EndOfParagraph(t, i) == t[i] = "\n" /\ i < Len(t) /\ (t[i + 1] = "\n" \/ HeadingAt(t, i + 1))
\* Position of the first line break of t, Len(t) + 1 if there is none
FirstEndOfLine(t) ==
    IF \E i \in DOMAIN t : t[i] = "\n"
    THEN CHOOSE i \in DOMAIN t : t[i] = "\n" /\ \A j \in 1..(i - 1) : t[j] # "\n"
    ELSE Len(t) + 1
\* Position of the first end of paragraph of t, Len(t) + 1 if there is none
FirstEndOfParagraph(t) ==
    IF \E i \in DOMAIN t : EndOfParagraph(t, i)
    THEN CHOOSE i \in DOMAIN t : EndOfParagraph(t, i) /\ \A j \in 1..(i - 1) : ~EndOfParagraph(t, j)
    ELSE Len(t) + 1

\* Blocks of a markdown text: "## title" lines are headings, the other lines
\* are paragraphs; every block is followed by a line break
RECURSIVE Blocks(_)
Blocks(text) ==
    LET t == TrimLeft(text)
        eol == FirstEndOfLine(t)
        eop == FirstEndOfParagraph(t)
    IN  IF t = <<>> THEN <<>>
        ELSE IF HeadingAt(t, 1)
        THEN <<El(Heading[t[1]], <<Text(TrimText(SubSeq(t, 3, eol - 1)))>>), Text(<<"\n">>)>>
                 \o Blocks(SubSeq(t, eol, Len(t)))
        ELSE <<El("p", <<Text(TrimRight(SubSeq(t, 1, eop - 1)))>>), Text(<<"\n">>)>>
                 \o Blocks(SubSeq(t, eop, Len(t)))

\* marked.parse of a markdown source
parse(src) == Blocks(TextOf(src))

\* What a call of marked.parse does: it returns the HTML, or it throws
MarkedOutcomes == {"returns", "throws"}
\* The promise of markdownToHtmlAsync is rejected
Rejected == << [tag |-> "#rejected", cls |-> <<>>, attrs |-> {}, kids |-> <<>>, text |-> <<>>] >>

\* export async function markdownToHtmlAsync(content): the value of the
\* promise, Rejected when `await marked.parse(trimmed)` throws
markdownToHtmlAsync(content, marked) ==
    IF ~IsString(content) \/ trim(content) = EmptyString THEN EmptyString
    ELSE LET trimmed == trim(content)
         IN  IF startsWithLt(trimmed) THEN enhanceReportHtml(Sanitize(trimmed))
             ELSE IF marked = "throws" THEN Rejected
             ELSE enhanceReportHtml(Sanitize(parse(trimmed)))

\* trimmed.replace(/\n/g, '<br>') on the text of a markdown source
RECURSIVE BreakLines(_)
BreakLines(t) ==
    IF t = <<>> THEN <<>>
    ELSE (IF Head(t) = "\n" THEN <<El("br", <<>>)>> ELSE <<Text(<<Head(t)>>)>>)
             \o BreakLines(Tail(t))

\* The allow-list of the fallback of markdownToHtml
FallbackTags == {"p", "br", "strong", "em", "b", "i", "u", "ul", "ol", "li"}

\* export function markdownToHtml(content); when marked.parse throws, the
\* source with its line breaks replaced goes through the narrower allow-list
markdownToHtml(content, marked) ==
    IF ~IsString(content) \/ trim(content) = EmptyString THEN EmptyString
    ELSE LET trimmed == trim(content)
         IN  IF startsWithLt(trimmed) THEN Sanitize(trimmed)
             ELSE IF marked = "throws"
             THEN innerHTML(SanitizeNodes(innerHTML(BreakLines(TextOf(trimmed))),
                                          FallbackTags, {}))
             ELSE Sanitize(parse(trimmed))

\* What the model reads as a source: not a string, blank, HTML, or markdown text
IsSource(x) ==
    \/ ~IsString(x)
    \/ trim(x) = EmptyString
    \/ startsWithLt(trim(x))
    \/ \A i \in DOMAIN x : IsText(x[i])

\* ---- the documents the functions are applied to
BulgeText == <<"L4-L5", ":", " ", "moderate", " ", "disc", " ", "bulge", " ", "causing", " ",
               "mild", " ", "central", " ", "canal", " ", "stenosis">>
NormalText == <<"L5-S1", ":", " ", "disc", " ", "space", " ", "is", " ", "normal", " ", "and",
                " ", "unremarkable">>
HerniationText == <<"L3-L4", ":", " ", "disc", " ", "herniation">>
NoLevelText == <<"disc", " ", "bulge", " ", "noted">>
P(text) == El("p", <<Text(text)>>)
H2(text) == El("h2", <<Text(text)>>)

ReportBlocks ==
    { H2(<<"FINDINGS">>), H2(<<"Impression">>), H2(<<"Technique">>),
      P(BulgeText), P(NormalText), P(HerniationText), P(NoLevelText),
      El("div", <<Text(NoLevelText)>>),
      Elem("p", <<>>, {"onclick", "data-x"}, <<Text(<<"ok">>)>>),
      El("script", <<Text(<<"alert">>)>>),
      El("h2", <<Text(<<"find">>), El("b", <<Text(<<"ings">>)>>)>>),
      Text(<<"note">>) }

MarkdownReport == <<Text(<<"##", " ", "FINDINGS", "\n", "\n">> \o HerniationText
                         \o <<"\n", "\n", "##", " ", "Impression", "\n">> \o NormalText)>>

\* No two text nodes in a row, as in every parsed string
Parsed(s) == \A i \in 1..(Len(s) - 1) : IsElement(s[i]) \/ IsElement(s[i + 1])

\* Reports of two sections: a FINDINGS h2 and an Impression h2, each followed by
\* one or two paragraphs
Paragraphs == UNION {[1..n -> {P(HerniationText), P(NoLevelText)}] : n \in 1..2}
SectionReports ==
    {<<H2(<<"FINDINGS">>)>> \o ps \o <<H2(<<"Impression">>)>> \o qs : ps \in Paragraphs, qs \in Paragraphs}

\* Blocks for the tinting rule: an element of one of four tags whose text has
\* a level token or none, an abnormal keyword or none, a normal keyword or none
TintText(level, abnormal, normal) ==
    (IF level THEN <<"L3-L4", ":", " ">> ELSE <<>>) \o <<"disc">>
        \o (IF abnormal THEN <<" ", "herniation">> ELSE <<>>)
        \o (IF normal THEN <<" ", "is", " ", "normal">> ELSE <<>>)
\* A word of m characters that is no keyword
RECURSIVE Filler(_)
Filler(m) ==
    IF m = 0 THEN ""
    ELSE IF m % 2 = 0 THEN LET half == Filler(m \div 2) IN half \o half
    ELSE "x" \o Filler(m - 1)
\* A level finding of k characters
LongText(k) == <<"L3-L4", " ", "herniation", " ", Filler(k - 17)>>
TintInputs ==
    { <<El(tag, <<Text(TintText(l, a, n))>>)>> :
          tag \in {"p", "div", "li", "h3"}, l \in BOOLEAN, a \in BOOLEAN, n \in BOOLEAN }
    \cup { <<P(LongText(k))>> : k \in {LevelTextCutoff - 1, LevelTextCutoff} }
    \cup { <<El("p", <<Text(<<"L3-L4", ":", " ", "disc", " ", "bul">>),
                       El("b", <<Text(<<"ge">>)>>)>>)>> }

FormatInputs ==
    {s \in UNION {[1..n -> ReportBlocks] : n \in 0..MaxTop} : Parsed(s) /\ IsSource(s)}
    \cup {NullValue, NotAString, <<Text(<<" ", "\n">>)>>, MarkdownReport,
          <<Text(<<" ">> \o HerniationText \o <<"\n">>)>>}
    \cup SectionReports \cup TintInputs

\* The allow-list holds for every element of s
RECURSIVE Safe(_)
Safe(s) ==
    \A i \in DOMAIN s :
        IsText(s[i]) \/ (s[i].tag \in AllowedTags /\ s[i].attrs = {} /\ Safe(s[i].kids))

FormatFns == {"markdownToHtmlAsync", "markdownToHtml", "enhanceReportHtml"}
Call(fn, x, marked) ==
    CASE fn = "markdownToHtmlAsync" -> markdownToHtmlAsync(x, marked)
      [] fn = "markdownToHtml" -> markdownToHtml(x, marked)
      [] fn = "enhanceReportHtml" -> enhanceReportHtml(x)
NoCall == [fn |-> "none", input |-> EmptyString, output |-> EmptyString, depth |-> 0,
           marked |-> "returns"]

\* marked.parse is reached by the two conversions, for a source that is not
\* blank and does not start with an element
ReachesMarked(fn, x) ==
    fn # "enhanceReportHtml" /\ IsString(x) /\ trim(x) # EmptyString /\ ~startsWithLt(trim(x))

\* enhanceReportHtml is called on sanitized HTML only
Callable(fn, x) == IsSource(x) /\ (fn = "enhanceReportHtml" => ~IsString(x) \/ Safe(x))

\* One of the functions is called on a document
Apply(fn, x, marked) ==
    /\ fmt.depth = 0
    /\ Callable(fn, x)
    /\ marked = "throws" => ReachesMarked(fn, x)
    /\ fmt' = [fn |-> fn, input |-> x, output |-> Call(fn, x, marked), depth |-> 1,
               marked |-> marked]
    /\ UNCHANGED <<initVars, viewerVars, rv, rvEvent, otherVars>>

\* One of the functions is called on the result of the last call
Reapply(fn, marked) ==
    /\ fmt.depth \in 1..(MaxApply - 1)
    /\ fmt.output # Rejected
    /\ Callable(fn, fmt.output)
    /\ marked = "throws" => ReachesMarked(fn, fmt.output)
    /\ fmt' = [fn |-> fn, input |-> fmt.output, output |-> Call(fn, fmt.output, marked),
               depth |-> fmt.depth + 1, marked |-> marked]
    /\ UNCHANGED <<initVars, viewerVars, rv, rvEvent, otherVars>>

(***************************************************************************)
(* reportFormat.js: htmlToPlainText.  It works on the characters of the    *)
(* string, so here a string is the sequence of its characters; a tag name  *)
(* ("p", "br") and the rest of an entity ("nbsp;") count as one character, *)
(* and letters are lower-case.                                             *)
(***************************************************************************)

\* A value that is not a string
PlainNotAString == <<"#object">>
\* \s, and what String.prototype.trim removes
Blank == {" ", "\t", "\n"}
\* </p> | </div> | </h[1-6]>
ClosingNames == {"p", "div", "h1", "h2", "h3", "h4", "h5", "h6"}

\* Index of the first character of s at or after i that is not \s
RECURSIVE SkipBlank(_, _)
SkipBlank(s, i) == IF i <= Len(s) /\ s[i] \in Blank THEN SkipBlank(s, i + 1) ELSE i

\* Length of the match of /<\/p>|<\/div>|<\/h[1-6]>|<br\s*\/?>/ at the start of
\* s, 0 if there is none
BreakLen(s) ==
    IF Len(s) >= 4 /\ s[1] = "<" /\ s[2] = "/" /\ s[3] \in ClosingNames /\ s[4] = ">" THEN 4
    ELSE IF Len(s) >= 3 /\ s[1] = "<" /\ s[2] = "br"
    THEN LET k == SkipBlank(s, 3)
             e == IF k <= Len(s) /\ s[k] = "/" THEN k + 1 ELSE k
         IN  IF e <= Len(s) /\ s[e] = ">" THEN e ELSE 0
    ELSE 0

\* .replace(/<\/p>|<\/div>|<\/h[1-6]>|<br\s*\/?>/gi, '\n')
RECURSIVE ReplaceBreaks(_)
ReplaceBreaks(s) ==
    IF s = <<>> THEN <<>>
    ELSE IF BreakLen(s) > 0 THEN <<"\n">> \o ReplaceBreaks(SubSeq(s, BreakLen(s) + 1, Len(s)))
    ELSE <<Head(s)>> \o ReplaceBreaks(Tail(s))

\* Length of the match of /<[^>]+>/ at the start of s, 0 if there is none
TagLen(s) ==
    IF Len(s) >= 3 /\ s[1] = "<" /\ s[2] # ">" /\ \E j \in 3..Len(s) : s[j] = ">"
    THEN CHOOSE j \in 3..Len(s) : s[j] = ">" /\ \A i \in 3..(j - 1) : s[i] # ">"
    ELSE 0

\* .replace(/<[^>]+>/g, '')
RECURSIVE StripTags(_)
StripTags(s) ==
    IF s = <<>> THEN <<>>
    ELSE IF TagLen(s) > 0 THEN StripTags(SubSeq(s, TagLen(s) + 1, Len(s)))
    ELSE <<Head(s)>> \o StripTags(Tail(s))

\* .replace(/&nbsp;/g, ' ')
RECURSIVE ReplaceNbsp(_)
ReplaceNbsp(s) ==
    IF s = <<>> THEN <<>>
    ELSE IF Len(s) >= 2 /\ s[1] = "&" /\ s[2] = "nbsp;"
    THEN <<" ">> \o ReplaceNbsp(SubSeq(s, 3, Len(s)))
    ELSE <<Head(s)>> \o ReplaceNbsp(Tail(s))

\* .replace(/[ \t]+/g, ' ')
RECURSIVE CollapseSpaces(_)
CollapseSpaces(s) ==
    IF s = <<>> THEN <<>>
    ELSE IF Head(s) \in {" ", "\t"}
    THEN IF Len(s) >= 2 /\ s[2] \in {" ", "\t"} THEN CollapseSpaces(Tail(s))
         ELSE <<" ">> \o CollapseSpaces(Tail(s))
    ELSE <<Head(s)>> \o CollapseSpaces(Tail(s))

\* .replace(/\n /g, '\n')
RECURSIVE DropSpaceAfterNewline(_)
DropSpaceAfterNewline(s) ==
    IF s = <<>> THEN <<>>
    ELSE IF Len(s) >= 2 /\ s[1] = "\n" /\ s[2] = " "
    THEN <<"\n">> \o DropSpaceAfterNewline(SubSeq(s, 3, Len(s)))
    ELSE <<Head(s)>> \o DropSpaceAfterNewline(Tail(s))

\* .replace(/ \n/g, '\n')
RECURSIVE DropSpaceBeforeNewline(_)
DropSpaceBeforeNewline(s) ==
    IF s = <<>> THEN <<>>
    ELSE IF Len(s) >= 2 /\ s[1] = " " /\ s[2] = "\n"
    THEN <<"\n">> \o DropSpaceBeforeNewline(SubSeq(s, 3, Len(s)))
    ELSE <<Head(s)>> \o DropSpaceBeforeNewline(Tail(s))

\* Number of "\n" at the start of s
RECURSIVE NewlineRun(_)
NewlineRun(s) == IF s # <<>> /\ Head(s) = "\n" THEN 1 + NewlineRun(Tail(s)) ELSE 0

\* .replace(/\n{3,}/g, '\n\n')
RECURSIVE CollapseNewlines(_)
CollapseNewlines(s) ==
    IF s = <<>> THEN <<>>
    ELSE IF NewlineRun(s) >= 3
    THEN <<"\n", "\n">> \o CollapseNewlines(SubSeq(s, NewlineRun(s) + 1, Len(s)))
    ELSE <<Head(s)>> \o CollapseNewlines(Tail(s))

\* s.trim()
RECURSIVE TrimChars(_)
TrimChars(s) ==
    IF s = <<>> THEN s
    ELSE IF Head(s) \in Blank THEN TrimChars(Tail(s))
    ELSE IF s[Len(s)] \in Blank THEN TrimChars(SubSeq(s, 1, Len(s) - 1))
    ELSE s

\* s = s.replace(/[ \t]+/g, ' ').replace(/\n /g, '\n').replace(/ \n/g, '\n').replace(/\n{3,}/g, '\n\n')
NormaliseSpace(s) ==
    CollapseNewlines(DropSpaceBeforeNewline(DropSpaceAfterNewline(CollapseSpaces(s))))

htmlToPlainTextNbspLast(html) ==
    IF html = PlainNotAString THEN <<>>
    ELSE ReplaceNbsp(TrimChars(NormaliseSpace(StripTags(ReplaceBreaks(html)))))

\* export function htmlToPlainText(html)
htmlToPlainText(html) ==
    IF html = PlainNotAString THEN <<>>
    ELSE TrimChars(NormaliseSpace(ReplaceNbsp(StripTags(ReplaceBreaks(html)))))

\* Strings are put together from these pieces
Pieces == { <<"<">>, <<">">>, <<"<", "/", "p", ">">>, <<"<", "br", " ", "/", ">">>,
            <<"p">>, <<" ">>, <<"\t">>, <<"\n">>, <<"&", "nbsp;">> }
RECURSIVE Concat(_)
Concat(ps) == IF ps = <<>> THEN <<>> ELSE Head(ps) \o Concat(Tail(ps))
PlainInputs ==
    {Concat(ps) : ps \in UNION {[1..n -> Pieces] : n \in 0..MaxPieces}} \cup {PlainNotAString}

NoPlain == [input |-> <<>>, output |-> <<>>, depth |-> 0]

\* htmlToPlainText is called on a string
ToPlainText(html) ==
    /\ plain.depth = 0
    /\ plain' = [input |-> html, output |-> htmlToPlainText(html), depth |-> 1]
    /\ UNCHANGED <<initVars, viewerVars, reportVars, structured, shell, app>>

\* htmlToPlainText is called on the result of the last call
ToPlainTextAgain ==
    /\ plain.depth \in 1..(MaxApply - 1)
    /\ plain' = [input |-> plain.output, output |-> htmlToPlainText(plain.output),
                 depth |-> plain.depth + 1]
    /\ UNCHANGED <<initVars, viewerVars, reportVars, structured, shell, app>>

(***************************************************************************)
(* ReportViewer.jsx, with the host's wiring onReportChange={setReport}     *)
(*                                                                         *)
(* The record holds the state with the queued updates applied, the values  *)
(* of the last committed render (its buttons and their closures), whether  *)
(* the report effect of that commit has still to run, and the number of    *)
(* reports the host has set so far.  A host render commits in one task and *)
(* its effect runs in a later one; the state an effect or a promise        *)
(* callback sets is rendered in a later task.  A click or a change event   *)
(* runs its handler and the render it causes in one task: React runs a     *)
(* pending effect before it renders, but that render takes the updates of  *)
(* the handler only, so its commit shows the last committed values with    *)
(* the handler's updates; the effect of the commit of a click runs with    *)
(* that commit.                                                            *)
(***************************************************************************)

NoConversion == NullValue     \* the report effect returned no cleanup

\* const currentViewHtml = editedHtml != null ? editedHtml : displayHtml
currentViewHtml(v) == IF v.editedHtml # NullValue THEN v.editedHtml ELSE v.displayHtml

\* What a render of the component closes over and shows
Rendered(v) ==
    [ report |-> v.report, viewMode |-> v.viewMode, displayHtml |-> v.displayHtml,
      editedHtml |-> v.editedHtml, editValue |-> v.editValue ]

\* The component after its first render and report effect, report = ''
NewReportViewer ==
    [ report |-> EmptyString, displayHtml |-> EmptyString, editedHtml |-> NullValue,
      viewMode |-> TRUE, editValue |-> EmptyString,
      conversion |-> NoConversion, cancelled |-> EmptyBag,
      effectPending |-> FALSE, reports |-> 0,
      rendered |-> [ report |-> EmptyString, viewMode |-> TRUE, displayHtml |-> EmptyString,
                     editedHtml |-> NullValue, editValue |-> EmptyString ] ]

ReportEvent(type, value) == [type |-> type, value |-> value]

\* `report &&` in the render: the report is truthy
HasReport(v) == v.report \notin {EmptyString, NullValue}

\* return () => { cancelled = true }
CancelConversion(v) ==
    IF v.conversion = NoConversion THEN v
    ELSE [v EXCEPT !.conversion = NoConversion, !.cancelled = @ (+) SetToBag({v.conversion})]

\* useEffect(() => { ... }, [report]): cleanup of the previous run, then the body
ReportEffect(v) ==
    LET c == [CancelConversion(v) EXCEPT !.effectPending = FALSE]
        trimmed == trim(v.report)
    IN  IF ~IsString(v.report) \/ trimmed = EmptyString
        THEN [c EXCEPT !.displayHtml = EmptyString, !.editedHtml = NullValue, !.viewMode = TRUE]
        ELSE IF startsWithLt(trimmed)
        THEN [c EXCEPT !.displayHtml = enhanceReportHtml(Sanitize(trimmed)),
                       !.editedHtml = NullValue, !.viewMode = TRUE]
        ELSE [c EXCEPT !.conversion = trimmed]

\* React runs the effect of the last commit, if it has not run yet, before it
\* renders again
FlushPassive(v) == IF v.effectPending THEN ReportEffect(v) ELSE v

\* One render and commit of every queued update
Committed(v) == [v EXCEPT !.rendered = Rendered(v)]

\* The host sets another report (a study is loaded, an analysis returns) and
\* renders; the report effect of this commit has not run yet
SetReport(r) ==
    /\ r # rv.report
    /\ rv.reports < MaxReports
    /\ rv' = Committed([FlushPassive(rv) EXCEPT !.report = r, !.effectPending = TRUE,
                                                !.reports = @ + 1])
    /\ BagCardinality(rv'.cancelled) <= MaxCancelled
    /\ rvEvent' = ReportEvent("setReport", r)
    /\ UNCHANGED <<initVars, viewerVars, fmt, otherVars>>

\* The report effect of the last commit runs
ReportEffectRuns ==
    /\ rv.effectPending
    /\ rv' = ReportEffect(rv)
    /\ BagCardinality(rv'.cancelled) <= MaxCancelled
    /\ rvEvent' = ReportEvent("effect", rv.report)
    /\ UNCHANGED <<initVars, viewerVars, fmt, otherVars>>

\* React renders the state the effect or a promise callback set
RerenderReport ==
    /\ Rendered(FlushPassive(rv)) # rv.rendered
    /\ rv' = Committed(FlushPassive(rv))
    /\ BagCardinality(rv'.cancelled) <= MaxCancelled
    /\ rvEvent' = ReportEvent("render", rv.report)
    /\ UNCHANGED <<initVars, viewerVars, fmt, otherVars>>

\* markdownToHtmlAsync(trimmed).then((html) => { if (!cancelled) { ... } }): the
\* promise of the conversion of c settles, with the `cancelled` of its closure;
\* a rejection has no handler
Resolved(v, c, cancelled, marked) ==
    IF cancelled \/ markdownToHtmlAsync(c, marked) = Rejected THEN v
    ELSE [v EXCEPT !.displayHtml = markdownToHtmlAsync(c, marked), !.editedHtml = NullValue,
                   !.viewMode = TRUE]

\* The promise of the conversion the report effect last started settles
ConversionDone(marked) ==
    /\ rv.conversion # NoConversion
    /\ rv' = [Resolved(rv, rv.conversion, FALSE, marked) EXCEPT !.conversion = NoConversion]
    /\ rvEvent' = ReportEvent(IF marked = "throws" THEN "conversionFailed" ELSE "conversionDone",
                              rv.conversion)
    /\ UNCHANGED <<initVars, viewerVars, fmt, otherVars>>

\* The promise of a cancelled conversion settles
CancelledConversionDone(c, marked) ==
    /\ BagIn(c, rv.cancelled)
    /\ rv' = [Resolved(rv, c, TRUE, marked) EXCEPT !.cancelled = @ (-) SetToBag({c})]
    /\ rvEvent' = ReportEvent("cancelledConversionDone", c)
    /\ UNCHANGED <<initVars, viewerVars, fmt, otherVars>>

\* Click on "Edit Report", rendered when report && viewMode; the handler closes
\* over the currentViewHtml of the render that created it
switchToEdit ==
    /\ HasReport(rv.rendered) /\ rv.rendered.viewMode
    /\ rv' = [FlushPassive([rv EXCEPT !.editValue = currentViewHtml(rv.rendered),
                                      !.viewMode = FALSE])
                 EXCEPT !.rendered = [rv.rendered EXCEPT
                                         !.editValue = currentViewHtml(rv.rendered),
                                         !.viewMode = FALSE]]
    /\ BagCardinality(rv'.cancelled) <= MaxCancelled
    /\ rvEvent' = ReportEvent("switchToEdit", currentViewHtml(rv.rendered))
    /\ UNCHANGED <<initVars, viewerVars, fmt, otherVars>>

\* onChange of the editor, rendered when the report is truthy and !viewMode
handleEditChange(value) ==
    /\ HasReport(rv.rendered) /\ ~rv.rendered.viewMode
    /\ value # rv.rendered.editValue
    /\ rv' = [FlushPassive([rv EXCEPT !.editValue = value])
                 EXCEPT !.rendered = [rv.rendered EXCEPT !.editValue = value]]
    /\ BagCardinality(rv'.cancelled) <= MaxCancelled
    /\ rvEvent' = ReportEvent("handleEditChange", value)
    /\ UNCHANGED <<initVars, viewerVars, fmt, otherVars>>

\* Depth of the deepest element of a document
RECURSIVE Nesting(_)
Nesting(s) ==
    IF s = <<>> THEN 0
    ELSE LET first == IF IsText(Head(s)) THEN 0 ELSE 1 + Nesting(Head(s).kids)
             others == Nesting(Tail(s))
         IN  IF first >= others THEN first ELSE others

\* Click on "Save Changes", rendered when report && !viewMode; the handler
\* closes over the editValue of the render that created it.  The host's
\* setReport(sanitized) is batched with the two state updates; a pending
\* effect runs, with the report of its commit, before the render, and the
\* report effect of the commit of the click runs with it if the report changed.
saveEdit ==
    LET sanitized == Sanitize(rv.rendered.editValue)
        saved == FlushPassive([rv EXCEPT !.editedHtml = sanitized, !.viewMode = TRUE])
        host == [saved EXCEPT !.report = sanitized,
                              !.effectPending = sanitized # rv.rendered.report,
                              !.rendered = [rv.rendered EXCEPT !.report = sanitized,
                                                               !.editedHtml = sanitized,
                                                               !.viewMode = TRUE]]
    IN  /\ HasReport(rv.rendered) /\ ~rv.rendered.viewMode
        /\ rv' = FlushPassive(host)
        /\ BagCardinality(rv'.cancelled) <= MaxCancelled
        /\ Nesting(currentViewHtml(rv')) <= MaxNesting
        /\ rvEvent' = ReportEvent("saveEdit", sanitized)
        /\ UNCHANGED <<initVars, viewerVars, fmt, otherVars>>

\* Reports the API returns
ReportInputs ==
    { EmptyString, <<Text(<<" ">>)>>, NotAString, MarkdownReport, <<Text(<<"hello">>)>>,
      <<El("script", <<Text(<<"alert">>)>>),
        Elem("p", <<>>, {"onclick", "data-x", "aria-label"}, <<Text(<<"ok">>)>>)>>,
      <<H2(<<"FINDINGS">>), P(BulgeText), H2(<<"Impression">>), P(NormalText)>>,
      \* HTML that was annotated before its text was revised
      <<Elem("p", <<"report-level-normal">>, {}, <<Text(HerniationText)>>)>> }

\* Contents the editor hands to onChange
EditInputs ==
    { EmptyString, <<P(<<"ok">>)>>,
      <<P(<<"ok">>), El("script", <<Text(<<"alert">>)>>)>>,
      <<Elem("p", <<>>, {"onclick", "aria-label"},
             <<Text(<<"see", " ">>), Elem("a", <<>>, {"href"}, <<Text(<<"link">>)>>)>>)>>,
      <<H2(<<"FINDINGS">>), P(BulgeText)>> }

(***************************************************************************)
(* ReportViewer.jsx: the confidence panel and the verification warning     *)
(***************************************************************************)

\* const DISC_LEVELS = ['L1-L2', 'L2-L3', 'L3-L4', 'L4-L5', 'L5-S1']
DISC_LEVELS == <<"L1-L2", "L2-L3", "L3-L4", "L4-L5", "L5-S1">>
Levels == {DISC_LEVELS[i] : i \in DOMAIN DISC_LEVELS}
Tiers == {"high", "medium", "low"}

\* An object without entries
NoTiers == [l \in {} |-> "high"]

\* The structured prop of one render: whether it is an object (not null), and
\* its confidence.level_confidence: a tier for some of the levels.  The report
\* prop of that render is rv.rendered.report.
Props(hasStructured, level_confidence) ==
    [hasStructured |-> hasStructured, level_confidence |-> level_confidence]
NoStructured == Props(FALSE, NoTiers)

\* const confidence = structured?.confidence || {}
\* const levelConfidence = confidence.level_confidence || {}
levelConfidence(p) == IF p.hasStructured THEN p.level_confidence ELSE NoTiers

\* levelConfidence[l] || 'medium'
TierOf(p, l) == IF l \in DOMAIN levelConfidence(p) THEN levelConfidence(p)[l] ELSE "medium"

\* const hasLowConfidence = DISC_LEVELS.some(...) || DISC_LEVELS.some(...)
hasLowConfidence(p) ==
    \/ \E i \in DOMAIN DISC_LEVELS : TierOf(p, DISC_LEVELS[i]) = "low"
    \/ \E i \in DOMAIN DISC_LEVELS : TierOf(p, DISC_LEVELS[i]) = "medium"

\* {report && Object.keys(levelConfidence).length > 0 && ( ... )}
PanelShown(v, p) == HasReport(v) /\ DOMAIN levelConfidence(p) # {}

\* const label = isLow ? 'Low' : isMedium ? 'Medium' : 'High'
Label(p, l) ==
    LET conf == TierOf(p, l)
    IN  IF conf = "low" THEN "Low" ELSE IF conf = "medium" THEN "Medium" ELSE "High"

\* {hasLowConfidence && report && ( ... Please verify ... )}
WarningShown(v, p) == hasLowConfidence(p) /\ HasReport(v)

\* level_confidence with the entry of level l set to tier, or removed
WithTier(c, l, tier) == [k \in DOMAIN c \cup {l} |-> IF k = l THEN tier ELSE c[k]]
WithoutTier(c, l) == [k \in DOMAIN c \ {l} |-> c[k]]

\* The host renders the component with another structured prop: React runs
\* the report effect of the last commit if it has still to run, and the
\* render shows every queued update
Render(p) ==
    /\ p # structured
    /\ structured' = p
    /\ rv' = Committed(FlushPassive(rv))
    /\ BagCardinality(rv'.cancelled) <= MaxCancelled
    /\ rvEvent' = ReportEvent("render", rv.report)
    /\ UNCHANGED <<initVars, viewerVars, fmt, plain, shell, app>>

\* The host renders the component with structured = null
RenderUnstructured ==
    Render([structured EXCEPT !.hasStructured = FALSE, !.level_confidence = NoTiers])
\* The host renders the component with another structured result
RenderTier(l, tier) ==
    Render([structured EXCEPT !.hasStructured = TRUE, !.level_confidence = WithTier(@, l, tier)])
RenderNoTier(l) ==
    Render([structured EXCEPT !.hasStructured = TRUE, !.level_confidence = WithoutTier(@, l)])

(***************************************************************************)
(* electron/main.js: the main window, the tray and app.isQuitting          *)
(***************************************************************************)

\* The process before it runs main.js
Unstarted ==
    [ running |-> "unstarted", darwin |-> FALSE, packaged |-> FALSE,
      isQuitting |-> FALSE, quitting |-> FALSE,
      window |-> "none", minimized |-> FALSE, focused |-> FALSE,
      devTools |-> FALSE, tray |-> FALSE, shortcut |-> FALSE, event |-> "none" ]

Running(s) == s.running = "running"
isVisible(s) == s.window = "visible"

\* function createWindow()
\* if (!app.isPackaged) { ...; mainWindow.webContents.openDevTools() }
createWindow(s) ==
    [s EXCEPT !.window = "visible", !.minimized = FALSE, !.focused = TRUE,
              !.devTools = ~s.packaged]
\* function createTray(), function registerShortcuts()
createTray(s) == [s EXCEPT !.tray = TRUE]
registerShortcuts(s) == [s EXCEPT !.shortcut = TRUE]

\* mainWindow.hide(), .show(), .focus(), .restore()
hide(s) == [s EXCEPT !.window = "hidden", !.focused = FALSE]
show(s) == [s EXCEPT !.window = "visible"]
focus(s) == [s EXCEPT !.focused = ~s.minimized]
restore(s) == [s EXCEPT !.minimized = FALSE]

\* mainWindow.on('close', ...): if (!app.isQuitting) event.preventDefault()
NeverPrevented(s) == FALSE
Prevented(s) == ~s.isQuitting

\* The window is asked to close: the 'close' handler runs, and the window
\* closes unless the handler prevented it
close(s) ==
    IF Prevented(s) THEN hide(s)
    ELSE [s EXCEPT !.window = "closed", !.focused = FALSE, !.devTools = FALSE]

\* app.on('will-quit', ...), then the process ends
willQuit(s) == [s EXCEPT !.shortcut = FALSE, !.tray = FALSE, !.running = "quit",
                         !.quitting = FALSE]

\* app.quit(): every open window is asked to close, which happens in a later
\* task; without a window the application quits
quit(s) ==
    IF s.window \in {"visible", "hidden"} THEN [s EXCEPT !.quitting = TRUE] ELSE willQuit(s)

\* app.on('window-all-closed', ...): the last window closed without app.quit()
windowAllClosed(s) == IF ~s.darwin THEN quit(s) ELSE s

\* The window answers a request to close it: a close the handler prevented
\* cancels a quit; when the last window has closed the application quits if
\* app.quit() had asked for it, and 'window-all-closed' is emitted otherwise
closeWindow(s) ==
    LET c == close(s)
    IN  IF c.window # "closed" THEN [c EXCEPT !.quitting = FALSE]
        ELSE IF s.quitting THEN willQuit(c)
        ELSE windowAllClosed(c)

Happened(s, event) == [s EXCEPT !.event = event]
ShellStep(s, event) ==
    /\ shell' = Happened(s, event)
    /\ UNCHANGED <<initVars, viewerVars, reportVars, plain, structured, app>>

\* The first instance starts: app.whenReady().then(...) with the lock held
Launch(darwin, packaged) ==
    /\ shell.running = "unstarted"
    /\ ShellStep(registerShortcuts(createTray(createWindow(
           [shell EXCEPT !.running = "running", !.darwin = darwin, !.packaged = packaged]))),
         "launch")

\* The user asks the window to close (title bar button, Alt+F4, Cmd+W)
CloseRequest ==
    /\ Running(shell) /\ isVisible(shell)
    /\ ShellStep(closeWindow(shell), "close")

\* The window is asked to close by app.quit()
QuitClosesWindow ==
    /\ Running(shell) /\ shell.quitting
    /\ ShellStep(closeWindow(shell), "quit")

\* Tray menu "Show Spine AI" and double click on the tray icon
TrayShow(event) ==
    /\ Running(shell) /\ shell.tray
    /\ ShellStep(focus(show(shell)), event)

\* Tray menu "Quit"
TrayQuit ==
    /\ Running(shell) /\ shell.tray
    /\ ShellStep(quit([shell EXCEPT !.isQuitting = TRUE]), "trayQuit")

\* The application menu's Quit item (role quit; Cmd+Q, dock menu): app.quit()
MenuQuit ==
    /\ Running(shell)
    /\ ShellStep(quit(shell), "menuQuit")

\* globalShortcut CommandOrControl+Shift+S
Shortcut ==
    /\ Running(shell) /\ shell.shortcut
    /\ ShellStep(IF isVisible(shell) THEN focus(shell) ELSE focus(show(shell)), "shortcut")

\* app.on('second-instance', ...)
SecondInstance ==
    /\ Running(shell)
    /\ ShellStep(focus(show(IF shell.minimized THEN restore(shell) ELSE shell)), "secondInstance")

\* app.on('activate', ...) (macOS): a window is created when none is open
Activate ==
    /\ Running(shell) /\ shell.darwin
    /\ ShellStep(IF shell.window \in {"none", "closed"} THEN createWindow(shell) ELSE shell,
                 "activate")

\* The user minimizes the window, restores it from the task bar, or turns to
\* another application
Minimize ==
    /\ Running(shell) /\ isVisible(shell) /\ ~shell.minimized
    /\ ShellStep([shell EXCEPT !.minimized = TRUE, !.focused = FALSE], "minimize")
Restore ==
    /\ Running(shell) /\ isVisible(shell) /\ shell.minimized
    /\ ShellStep([shell EXCEPT !.minimized = FALSE, !.focused = TRUE], "restore")
Blur ==
    /\ Running(shell) /\ shell.focused
    /\ ShellStep([shell EXCEPT !.focused = FALSE], "blur")
\* The developer closes the DevTools the unpackaged application opened
CloseDevTools ==
    /\ Running(shell) /\ isVisible(shell) /\ shell.devTools
    /\ ShellStep([shell EXCEPT !.devTools = FALSE], "closeDevTools")

(***************************************************************************)
(* Desktop App.jsx: the study on display, its report and the requests      *)
(* that fetch or produce it.  A report is modelled by the study it was     *)
(* fetched or analysed for.  The record holds the state with the queued    *)
(* updates applied, the values of the last committed render (its buttons   *)
(* and their closures) and the HTTP requests in flight.  A click renders   *)
(* the updates its handler makes before its first await in the same task;  *)
(* the updates of the continuation of an await are rendered in a later     *)
(* task.  The worklist poll is left out: it touches none of the state      *)
(* below.                                                                  *)
(***************************************************************************)

Studies == {1, 2}     \* study_id of the studies of the worklist
UploadedStudy == 3    \* study_id the server gives to an upload
NoStudy == 0          \* null
\* The report (or structured result) the server holds or produces for a study
ReportOf(sid, by) == [study |-> sid, by |-> by]
NoReport == ReportOf(NoStudy, "none")     \* '' and null

Request(kind, sid) == [kind |-> kind, sid |-> sid]

\* The useState initial values
NewState ==
    [ view |-> "worklist", selectedStudy |-> NoStudy, analyzed |-> FALSE,
      metadata |-> NoStudy, studyId |-> NoStudy,
      report |-> NoReport, structured |-> NoReport,
      analyzing |-> FALSE, analysisError |-> FALSE, reportLoading |-> FALSE,
      uploading |-> FALSE ]
NewApp == [ state |-> NewState, rendered |-> NewState, requests |-> EmptyBag ]

AppStep(a) ==
    /\ BagCardinality(a.requests) <= MaxRequests
    /\ app' = a
    /\ UNCHANGED <<initVars, viewerVars, reportVars, plain, structured, shell>>

Sent(a, req) == [a EXCEPT !.requests = @ (+) SetToBag({req})]
Received(a, req) == [a EXCEPT !.requests = @ (-) SetToBag({req})]

\* setX(v) for every entry x |-> v of updates
SetState(st, updates) ==
    [x \in DOMAIN st |-> IF x \in DOMAIN updates THEN updates[x] ELSE st[x]]
\* The updates of a click handler, with the render of that click
Click(a, updates) ==
    [a EXCEPT !.state = SetState(@, updates), !.rendered = SetState(@, updates)]
\* The updates of the continuation of an await
Continue(a, updates) == [a EXCEPT !.state = SetState(@, updates)]

\* React renders the updates a continuation queued
RenderApp ==
    /\ app.rendered # app.state
    /\ AppStep([app EXCEPT !.rendered = app.state])

\* {view === 'study' && metadata && (...)}: the study view with its buttons
StudyViewShown(st) == st.view = "study" /\ st.metadata # NoStudy

\* loadStudy(study), up to the await: click on a study of the worklist, whose
\* status is 'analyzed' or not
loadStudy(sid, analyzed) ==
    /\ app.rendered.view = "worklist"
    /\ AppStep(Sent(Click(app, [selectedStudy |-> sid, analyzed |-> analyzed,
                                 studyId |-> sid,
                                 report |-> NoReport, structured |-> NoReport,
                                 analysisError |-> FALSE,
                                 metadata |-> sid,
                                 reportLoading |-> TRUE]),
                     Request("report", sid)))

\* res.data of GET /api/study/{sid}/report: which of report, ai_report_text and
\* structured it holds; Failed when the request is rejected
Data(report, ai_report_text, result) ==
    [ok |-> TRUE, report |-> report, ai_report_text |-> ai_report_text, structured |-> result]
Failed == [ok |-> FALSE, report |-> FALSE, ai_report_text |-> FALSE, structured |-> FALSE]
ReportData == {Failed} \cup {Data(r, t, st) : r \in BOOLEAN, t \in BOOLEAN, st \in BOOLEAN}
\* res.data of POST /api/analyze/{studyId}
AnalysisData == {Failed} \cup {Data(r, FALSE, st) : r \in BOOLEAN, st \in BOOLEAN}

\* loadStudy after the await:
\*   setReport(res.data?.report || res.data?.ai_report_text || '')
\*   setStructured(res.data?.structured || null)
\* or, caught, setReport(''), setStructured(null); then setReportLoading(false)
\* and setView('study')
ReportArrived(req, data) ==
    [ report |-> IF data.report THEN ReportOf(req.sid, "report")
                 ELSE IF data.ai_report_text THEN ReportOf(req.sid, "ai_report_text")
                 ELSE NoReport,
      structured |-> IF data.structured THEN ReportOf(req.sid, "report") ELSE NoReport,
      reportLoading |-> FALSE,
      view |-> "study" ]

ReportResponse(req, data) ==
    /\ BagIn(req, app.requests) /\ req.kind = "report"
    /\ AppStep(Continue(Received(app, req), ReportArrived(req, data)))

\* handleAnalyze, up to the await: click on "Analyze with AI", which is
\* disabled when !hasStudy || analyzing; the handler closes over studyId
handleAnalyze ==
    /\ StudyViewShown(app.rendered)
    /\ app.rendered.studyId # NoStudy /\ ~app.rendered.analyzing
    /\ AppStep(Sent(Click(app, [analyzing |-> TRUE, analysisError |-> FALSE]),
                     Request("analyze", app.rendered.studyId)))

\* handleAnalyze after the await:
\*   setReport(res.data.report || ''), setStructured(res.data.structured || null)
\* or, caught, setAnalysisError(...); then setAnalyzing(false)
AnalysisArrived(req, data) ==
    IF data.ok
    THEN [ report |-> IF data.report THEN ReportOf(req.sid, "analyze") ELSE NoReport,
           structured |-> IF data.structured THEN ReportOf(req.sid, "analyze") ELSE NoReport,
           analyzing |-> FALSE ]
    ELSE [ analysisError |-> TRUE, analyzing |-> FALSE ]

AnalyzeResponse(req, data) ==
    /\ BagIn(req, app.requests) /\ req.kind = "analyze"
    /\ AppStep(Continue(Received(app, req), AnalysisArrived(req, data)))

\* onReportChange={setReport}: "Save Changes" of the ReportViewer, rendered
\* when the report is truthy, hands over the sanitized edit buffer, which is
\* empty or an edition of the report on display
onReportChange(empty) ==
    /\ StudyViewShown(app.rendered)
    /\ app.rendered.report # NoReport
    /\ AppStep(Click(app, [report |-> IF empty THEN NoReport
                                      ELSE ReportOf(app.rendered.report.study, "edit")]))

\* handleBackToWorklist, and handleApprove after a successful POST
BackToWorklist ==
    [ selectedStudy |-> NoStudy, analyzed |-> FALSE, studyId |-> NoStudy,
      metadata |-> NoStudy, report |-> NoReport, structured |-> NoReport,
      view |-> "worklist" ]

handleBackToWorklist ==
    /\ StudyViewShown(app.rendered)
    /\ AppStep(Click(app, BackToWorklist))

\* handleApprove: the button is rendered when selectedStudy?.status === 'analyzed';
\* the handler closes over studyId
handleApprove ==
    /\ StudyViewShown(app.rendered)
    /\ app.rendered.selectedStudy # NoStudy /\ app.rendered.analyzed
    /\ app.rendered.studyId # NoStudy
    /\ AppStep(Sent(app, Request("approve", app.rendered.studyId)))

ApproveResponse(req, outcome) ==
    /\ BagIn(req, app.requests) /\ req.kind = "approve"
    /\ AppStep(Continue(Received(app, req),
                         IF outcome = "ok" THEN BackToWorklist
                         ELSE [analysisError |-> TRUE]))

\* handleUpload, up to the await; the upload section belongs to the worklist
\* view, and its button is disabled while uploading
handleUpload ==
    /\ app.rendered.view = "worklist" /\ ~app.rendered.uploading
    /\ AppStep(Sent(Click(app, [uploading |-> TRUE, metadata |-> NoStudy,
                                 studyId |-> NoStudy, report |-> NoReport]),
                     Request("upload", UploadedStudy)))

\* What the answer to POST /upload-dicom is: study_id with image ids that are
\* strings (or none); study_id with an image id that is not a string, for
\* which id.startsWith throws; a rejection, or an answer without data
UploadOutcomes == {"ok", "badImageId", "error"}

\* handleUpload after the await: setStudyId has run when the argument of
\* setMetadata throws; the catch sets error only, finally setUploading(false)
UploadResponse(req, outcome) ==
    /\ BagIn(req, app.requests) /\ req.kind = "upload"
    /\ AppStep(Continue(Received(app, req),
                         IF outcome = "ok"
                         THEN [studyId |-> req.sid, metadata |-> req.sid,
                               view |-> "study", uploading |-> FALSE]
                         ELSE IF outcome = "badImageId"
                         THEN [studyId |-> req.sid, uploading |-> FALSE]
                         ELSE [uploading |-> FALSE]))

ReportInit ==
    /\ rv = NewReportViewer
    /\ rvEvent = ReportEvent("none", EmptyString)
    /\ fmt = NoCall

Init ==
    /\ InitModuleInit
    /\ viewer = UnmountedViewer
    /\ lastEvent = Did("none")
    /\ ReportInit
    /\ plain = NoPlain
    /\ structured = NoStructured
    /\ shell = Unstarted
    /\ app = NewApp

\* What initCornerstone meets when a viewer mounts
MountOutcomes == {NoThrow, Thrown("registerImageLoader failed", "Error: registerImageLoader failed"),
                  Thrown(Undefined, "")}

\* What a call of cornerstone.enable does
EnableOutcomes == {NoThrow} \cup ViewerThrown

\* The keydown events: every key with its target outside an editable element,
\* and one key of each direction and the unhandled key with it inside one
KeyEvents ==
    [key : Keys, inEditable : {FALSE}] \cup [key : {"ArrowLeft", "K", "Enter"}, inEditable : {TRUE}]

Next ==
    \/ \E len \in 0..MaxLen, outcome \in MountOutcomes : Mount(len, outcome)
    \/ \E enable \in EnableOutcomes : EffectsRun(enable)
    \/ \E discrete \in BOOLEAN, enable \in EnableOutcomes : Unmount(discrete, enable)
    \/ CleanupsRun
    \/ Rerender
    \/ \E len \in 0..MaxLen, discrete \in BOOLEAN, enable \in EnableOutcomes :
          SetImageIds(len, discrete, enable)
    \/ \E type \in {"goNext", "goPrev"}, enable \in EnableOutcomes : Navigate(type, enable)
    \/ \E k \in KeyEvents, enable \in EnableOutcomes : KeyDown(k.key, k.inEditable, enable)
    \/ \E outcome \in Outcomes, e \in ViewerThrown : LoadSettles(outcome, e)
    \/ \E l \in BagToSet(viewer.stale), outcome \in Outcomes, e \in ViewerThrown :
          StaleLoadSettles(l, outcome, e)

Spec == Init /\ [][Next]_vars

\* ---- calls of initCornerstone on their own
CallInit(outcome) ==
    /\ Len(initResults) < MaxCalls
    /\ ApplyInit(outcome)
    /\ UNCHANGED <<viewerVars, reportVars, otherVars>>

NextInit == \E outcome \in ThrownValues \cup {NoThrow} : CallInit(outcome)

SpecInit == Init /\ [][NextInit]_vars


\* ---- calls of the report functions on their own
NextFormat ==
    \/ \E fn \in FormatFns, x \in FormatInputs, marked \in MarkedOutcomes : Apply(fn, x, marked)
    \/ \E fn \in FormatFns, marked \in MarkedOutcomes : Reapply(fn, marked)

SpecFormat == Init /\ [][NextFormat]_vars

\* ---- one ReportViewer
NextReport ==
    \/ \E r \in ReportInputs : SetReport(r)
    \/ ReportEffectRuns
    \/ RerenderReport
    \/ \E marked \in MarkedOutcomes : ConversionDone(marked)
    \/ \E c \in BagToSet(rv.cancelled), marked \in MarkedOutcomes : CancelledConversionDone(c, marked)
    \/ switchToEdit
    \/ \E value \in EditInputs : handleEditChange(value)
    \/ saveEdit

SpecReport == Init /\ [][NextReport]_vars

\* ---- calls of htmlToPlainText on their own
NextPlain ==
    \/ plain.depth = 0 /\ \E html \in PlainInputs : ToPlainText(html)
    \/ ToPlainTextAgain

SpecPlain == Init /\ [][NextPlain]_vars

\* ---- renders of the confidence panel
\* The report prop of these renders: the empty string, an object, and a text
PanelReports == {EmptyString, NotAString, <<Text(<<"hello">>)>>}
NextConfidence ==
    \/ \E r \in PanelReports : SetReport(r)
    \/ RenderUnstructured
    \/ \E l \in Levels, tier \in Tiers : RenderTier(l, tier)
    \/ \E l \in Levels : RenderNoTier(l)

SpecConfidence == Init /\ [][NextConfidence]_vars

\* ---- the desktop shell
NextShell ==
    \/ \E darwin \in BOOLEAN, packaged \in BOOLEAN : Launch(darwin, packaged)
    \/ CloseRequest
    \/ QuitClosesWindow
    \/ \E event \in {"trayShow", "trayDoubleClick"} : TrayShow(event)
    \/ TrayQuit
    \/ MenuQuit
    \/ Shortcut
    \/ SecondInstance
    \/ Activate
    \/ Minimize
    \/ Restore
    \/ Blur
    \/ CloseDevTools

SpecShell == Init /\ [][NextShell]_vars

\* ---- the desktop App
NextApp ==
    \/ \E sid \in Studies, analyzed \in BOOLEAN : loadStudy(sid, analyzed)
    \/ \E req \in BagToSet(app.requests), data \in ReportData : ReportResponse(req, data)
    \/ handleAnalyze
    \/ \E req \in BagToSet(app.requests), data \in AnalysisData : AnalyzeResponse(req, data)
    \/ \E empty \in BOOLEAN : onReportChange(empty)
    \/ RenderApp
    \/ handleBackToWorklist
    \/ handleApprove
    \/ \E req \in BagToSet(app.requests), outcome \in {"ok", "error"} :
          ApproveResponse(req, outcome)
    \/ handleUpload
    \/ \E req \in BagToSet(app.requests), outcome \in UploadOutcomes :
          UploadResponse(req, outcome)

SpecApp == Init /\ [][NextApp]_vars

(***************************************************************************)
(* Properties of DICOMViewer (specification Spec)                          *)
(***************************************************************************)

\* The requests in flight
InFlight(v) ==
    (IF v.cur.status = "pending" THEN {v.cur} ELSE {}) \cup BagToSet(v.stale)

\* The step is the promise chain of l settling with outcome and e
Settles(l, outcome, e) ==
    /\ lastEvent'.type \in {"settle", "staleSettle"}
    /\ \/ l = viewer.cur /\ LoadSettles(outcome, e)
       \/ StaleLoadSettles(l, outcome, e)

\* The component has not been removed
Live(v) == v.mounted /\ v.passive # "unmount"

\* A load is stale when the slice, the sequence or the state of the surface
\* it was issued for is no longer the current one
Stale(v, l) ==
    \/ l.cancelled
    \/ l.idx # v.currentIndex
    \/ l.gen # CurrentSeq
    \/ ~v.enabled
    \/ ~Live(v)

Visible(v) == <<v.displayed, v.loading, v.error>>

\* C1: a load that is stale when it settles, with whatever outcome, leaves the
\* surface, loading and error as they were.
StaleLoadHasNoEffect ==
    [][ \A l \in InFlight(viewer), outcome \in Outcomes, e \in ViewerThrown :
           (Settles(l, outcome, e) /\ Stale(viewer, l))
              => Visible(viewer') = Visible(viewer) ]_vars

\* C2: of two overlapping loads the later request wins in either order: a
\* settling load changes the surface only to the image of the latest request,
\* which, once the effects of the last commit have run, is the one for the
\* current index, and while the latest request has been displayed the surface
\* shows its image.
LatestRequestWins ==
    /\ [][ lastEvent'.type \in {"settle", "staleSettle"}
             => \/ viewer'.displayed = viewer.displayed
                \/ /\ lastEvent'.type = "settle"
                   /\ viewer'.displayed = Image(viewer.cur.gen, viewer.cur.idx) ]_vars
    /\ []((viewer.cur.status # "none" /\ Live(viewer) /\ viewer.passive = "none")
             => viewer.cur.gen = CurrentSeq /\ viewer.cur.idx = viewer.currentIndex)
    /\ []((viewer.cur.status = "displayed" /\ Live(viewer) /\ viewer.passive = "none")
             => viewer.displayed = Image(viewer.cur.gen, viewer.cur.idx))

\* C2 witness: A was requested, then B; B resolved and was displayed, then A
\* resolved; the surface shows B.
LateStaleLoadWitness ==
    /\ lastEvent.type = "staleSettle"
    /\ viewer.stale = EmptyBag
    /\ viewer.passive = "none"
    /\ viewer.cur.status = "displayed"
    /\ viewer.currentIndex = 1
    /\ viewer.displayed = Image(CurrentSeq, 1)

\* C3: currentIndex is a valid index of the current sequence when it is not
\* empty, and undefined exactly when it is empty.
CurrentIndexValid ==
    Live(viewer) =>
        IF totalSlices(viewer) > 0
        THEN viewer.currentIndex \in 0..(totalSlices(viewer) - 1)
        ELSE viewer.currentIndex \notin Int       \* undefined

\* k calls of goNext from index i of a sequence of n slices
RECURSIVE NextTimes(_, _, _)
NextTimes(i, n, k) == IF k = 0 THEN i ELSE NextTimes(goNext(i, n), n, k - 1)

\* C4: for N >= 2 and an index i in 0..N-1, a click on Next moves to (i+1) mod N
\* and a click on Prev to (i-1) mod N; N times Next from 0 returns to 0, Prev
\* from 0 gives N-1, and Prev after Next restores the index.
NavigationWraps ==
    /\ [][ (totalSlices(viewer) >= 2 /\ viewer.currentIndex \in 0..(totalSlices(viewer) - 1))
             => /\ lastEvent'.type = "goNext"
                   => viewer'.currentIndex = (viewer.currentIndex + 1) % totalSlices(viewer)
                /\ lastEvent'.type = "goPrev"
                   => viewer'.currentIndex =
                        (viewer.currentIndex + totalSlices(viewer) - 1) % totalSlices(viewer) ]_vars
    /\ [](\A n \in 2..MaxLen :
             /\ NextTimes(0, n, n) = 0
             /\ goPrev(0, n) = n - 1
             /\ \A i \in 0..(n - 1) : goPrev(goNext(i, n), n) = i)

\* C4 witness: Prev wrapped from index 0 to the last slice of three or more
NavigationWrappedWitness ==
    /\ lastEvent.type = "goPrev"
    /\ totalSlices(viewer) >= 3
    /\ viewer.currentIndex = totalSlices(viewer) - 1

\* C14: a keydown event changes currentIndex only if the sequence has more
\* than one slice, the key is ArrowLeft/j/J or ArrowRight/k/K and the target is
\* not an input, a textarea or a contenteditable element; it then moves to the
\* previous or next slice, and in every other case currentIndex is unchanged.
KeyNavigation ==
    [][ \A key \in Keys, ed \in BOOLEAN :
          (lastEvent'.type = "key" /\ Live(viewer)
             /\ \E enable \in EnableOutcomes : KeyDown(key, ed, enable)) =>
             IF totalSlices(viewer) > 1 /\ key \in PrevKeys \cup NextKeys /\ ~ed
             THEN viewer'.currentIndex =
                     IF key \in PrevKeys
                     THEN goPrev(viewer.currentIndex, totalSlices(viewer))
                     ELSE goNext(viewer.currentIndex, totalSlices(viewer))
             ELSE viewer'.currentIndex = viewer.currentIndex ]_vars

\* C18: when imageIds changes to another sequence that is not empty,
\* currentIndex becomes 0, whatever it was before.
SequenceReplacementResets ==
    [][ (lastEvent'.type = "setImageIds" /\ totalSlices(viewer') > 0)
          => viewer'.currentIndex = 0 ]_vars

\* C19: when a load resolves and can be displayed, and the index it was issued
\* for is currentIndex of the sequence it was issued for, the surface shows
\* its image and loading is false; also for a load issued for A that resolves
\* after the user went from A to B and back to A.
LoadForCurrentIndexDisplayed ==
    [][ \A l \in InFlight(viewer), e \in ViewerThrown :
          ( /\ Settles(l, "ok", e)
            /\ l.gen = CurrentSeq
            /\ l.idx = viewer.currentIndex
            /\ Live(viewer) /\ viewer.enabled /\ viewer.csEnabled )
          => ( /\ viewer'.displayed = Image(CurrentSeq, viewer.currentIndex)
               /\ ~viewer'.loading ) ]_vars

NavigationEvents == {"goNext", "goPrev", "key"}

\* C20: when the load for the current index fails, error holds the message and
\* loading is false, and the index, the sequence and the surface are as they
\* were; a navigation of the enabled viewer to another index of the sequence
\* then clears error and starts the load of that index, and when that load
\* succeeds error is null, loading is false and its image is displayed.
LoadErrorHeals ==
    /\ [][ \A e \in ViewerThrown :
             (Live(viewer) /\ Settles(viewer.cur, "reject", e))
              => ( /\ viewer'.error = MessageOr(e, "Failed to load image")
                   /\ ~viewer'.loading
                   /\ viewer'.currentIndex = viewer.currentIndex
                   /\ viewer'.len = viewer.len /\ viewer'.gen = viewer.gen
                   /\ viewer'.displayed = viewer.displayed ) ]_vars
    /\ [][ ( /\ viewer.cur.status \in {"rejected", "displayFailed"}
             /\ lastEvent'.type \in NavigationEvents
             /\ Live(viewer) /\ viewer.passive = "none" /\ viewer.rendered.enabled
             /\ viewer'.currentIndex # viewer.currentIndex
             /\ viewer'.currentIndex \in 0..(totalSlices(viewer') - 1) )
              => ( /\ viewer'.error = Null
                   /\ viewer'.loading
                   /\ viewer'.cur = NewLoad(CurrentSeq, viewer'.currentIndex) ) ]_vars
    /\ [][ \A e \in ViewerThrown :
             ( /\ Settles(viewer.cur, "ok", e)
               /\ Live(viewer) /\ viewer.passive = "none" /\ viewer.csEnabled )
              => ( /\ viewer'.error = Null
                   /\ ~viewer'.loading
                   /\ viewer'.displayed = Image(CurrentSeq, viewer'.currentIndex) ) ]_vars

\* C20 witness: the second slice was displayed, the user went on to the third
\* and its load was rejected with new Error('boom')
LoadFailedWitness ==
    /\ lastEvent.type = "settle"
    /\ viewer.cur = Load(CurrentSeq, 2, FALSE, "rejected")
    /\ viewer.error = "boom"
    /\ ~viewer.loading
    /\ viewer.currentIndex = 2
    /\ viewer.displayed = Image(CurrentSeq, 1)

\* What a request in flight leaves alone: everything but the index, the two
\* flags the load effect sets and the bookkeeping of the requests and effects
BesidesRequest(v) ==
    [v EXCEPT !.currentIndex = 0, !.rendered.currentIndex = 0,
              !.loading = FALSE, !.error = Null,
              !.cur = NoLoad, !.stale = EmptyBag, !.depsLoad = NoDeps]

\* C21: a request that never resolves does not corrupt the viewer: a navigation
\* that issues a request sets loading, clears error and changes nothing else
\* but the index, whatever requests are still pending; and when the request of
\* the index the user went to resolves and can be displayed on the enabled
\* surface while an earlier request is still pending, its image is displayed
\* and loading becomes false.
PendingRequestHarmless ==
    /\ [][ ( /\ lastEvent'.type \in NavigationEvents
             /\ viewer.passive = "none"
             /\ viewer'.cur.status = "pending"
             /\ viewer'.currentIndex # viewer.currentIndex )
              => ( /\ viewer'.loading
                   /\ viewer'.error = Null
                   /\ viewer'.cur = NewLoad(CurrentSeq, viewer'.currentIndex)
                   /\ BesidesRequest(viewer') = BesidesRequest(Task(viewer)) ) ]_vars
    /\ [][ \A e \in ViewerThrown :
             ( /\ Settles(viewer.cur, "ok", e)
               /\ viewer.stale # EmptyBag
               /\ Live(viewer) /\ viewer.passive = "none" /\ viewer.csEnabled )
              => ( /\ viewer'.displayed = Image(CurrentSeq, viewer.currentIndex)
                   /\ ~viewer'.loading
                   /\ viewer'.error = Null
                   /\ viewer'.stale = viewer.stale ) ]_vars
    /\ []((viewer.cur.status = "pending" /\ Live(viewer)) => viewer.loading)

\* C21 witness: the request of the first slice never resolved; the user went
\* to the second slice, whose request resolved and is displayed
PendingRequestSupersededWitness ==
    /\ lastEvent.type = "settle"
    /\ viewer.stale = SetToBag({Load(CurrentSeq, 0, TRUE, "pending")})
    /\ viewer.cur = Load(CurrentSeq, 1, FALSE, "displayed")
    /\ viewer.currentIndex = 1
    /\ viewer.displayed = Image(CurrentSeq, 1)
    /\ ~viewer.loading
    /\ viewer.error = Null

\* The step issued a loadImage request: another request is the current one,
\* or the same slice was requested again and the earlier request superseded
LoadIssued(v, w) ==
    /\ w.cur.status = "pending" /\ w.cur.gen = CurrentSeq
    /\ \/ v.cur.status # "pending"
       \/ w.cur # v.cur
       \/ BagCardinality(w.stale) > BagCardinality(v.stale)

\* The steps of C22 that hold of the code: cornerstone.enable is called only
\* by the effects of a render that committed the surface element of a sequence
\* that is not empty and that saw enabled false, and never on an enabled
\* surface; when it throws, e?.message (or the default text) is recorded as
\* the error, enabled stays false and that task issues no image load; and as
\* long as the last call threw the surface is not enabled and no image load
\* is pending or issued.
EnableCalledWhenUnbound ==
    /\ [](~viewer.enableOnEnabled)
    /\ [][ (viewer'.csEnabled /\ ~viewer.csEnabled)
              => ( /\ viewer.passive = "effects"
                   /\ totalSlices(viewer) > 0 /\ viewer.elementRef
                   /\ ~viewer.rendered.enabled ) ]_vars
EnableFailureRecorded ==
    /\ [][ (viewer'.enableThrew # NoThrow /\ Live(viewer'))
              => ( /\ CallsEnable(viewer)
                   /\ viewer'.error = MessageOr(viewer'.enableThrew, "Failed to enable viewer")
                   /\ viewer'.enableFailed
                   /\ ~viewer'.enabled /\ ~viewer'.csEnabled
                   /\ ~LoadIssued(viewer, viewer') ) ]_vars
    /\ []((Live(viewer) /\ viewer.enableFailed)
              => ( /\ ~viewer.enabled /\ ~viewer.csEnabled
                   /\ viewer.cur.status # "pending" ))
    /\ [][ (Live(viewer) /\ viewer.enableFailed) => ~LoadIssued(viewer, viewer') ]_vars

\* C22: cornerstone.enable is called only when a surface element exists and
\* the viewer is not already bound, so never on a surface that is enabled; if
\* enable throws, the message is recorded, enabled stays false and no image
\* load is issued afterwards: once a call of enable has thrown, this viewer
\* never has enabled true again and never issues a load.
EnableGuarded ==
    /\ EnableCalledWhenUnbound
    /\ EnableFailureRecorded
    /\ [][ (Live(viewer) /\ viewer.enableFailed /\ Live(viewer'))
              => ( /\ viewer'.enableFailed
                   /\ ~viewer'.enabled
                   /\ ~LoadIssued(viewer, viewer') ) ]_vars

\* C22 as amended: cornerstone.enable is called only when a surface element
\* exists and the viewer is not already bound, so never on a surface that is
\* enabled; if enable throws, the message is recorded, enabled stays false,
\* and no image load is issued until a later call of enable has returned.
EnableGuardedUntilRetry ==
    /\ EnableCalledWhenUnbound
    /\ EnableFailureRecorded
    /\ [][ (Live(viewer) /\ viewer.enableFailed /\ Live(viewer') /\ ~viewer'.enableFailed)
              => ( /\ CallsEnable(viewer)
                   /\ viewer'.csEnabled /\ ~viewer.csEnabled ) ]_vars

\* C22 witness: enable threw an Error for the surface of three slices; the
\* user clicked Next and no load was issued
EnableThrewWitness ==
    /\ lastEvent.type = "goNext"
    /\ viewer.enableFailed
    /\ viewer.elementRef
    /\ totalSlices(viewer) = 3
    /\ viewer.currentIndex = 1
    /\ viewer.error = "boom"
    /\ viewer.cur = NoLoad
    /\ ~viewer.loading

\* C23: enable and disable of the surface are strictly paired: disable is
\* never called on a surface that is not enabled, and once the component is
\* unmounted no surface remains enabled.
BindUnbindPaired ==
    /\ ~viewer.disableOnDisabled
    /\ ~viewer.mounted => ~viewer.csEnabled

\* C24: every loadImage request is issued after the viewer's call of
\* initCornerstone returned ok and by the effects of a render that saw enabled
\* true, which only a successful enable of a surface by this viewer sets; a
\* viewer whose call of initCornerstone returned a failure never issues a
\* request.
LoadsNeedInit ==
    /\ [][ LoadIssued(viewer, viewer')
              => ( /\ initResults # <<>> /\ initResults[Len(initResults)].ok
                   /\ initialized
                   /\ viewer.initRan /\ viewer.initFailed = Null
                   /\ viewer.rendered.enabled /\ viewer.elementRef ) ]_vars
    /\ [][ (viewer'.enabled /\ ~viewer.enabled)
              => (viewer'.csEnabled /\ ~viewer.csEnabled) ]_vars
    /\ []((Live(viewer) /\ viewer.initRan /\ ~initResults[Len(initResults)].ok)
              => viewer.initFailed \notin {Null, ""})
    /\ []((initResults # <<>> /\ ~initResults[Len(initResults)].ok)
              => ( /\ viewer.cur = NoLoad /\ viewer.stale = EmptyBag
                   /\ viewer.displayed = NoImage
                   /\ ~viewer.loading ))

\* C24 witness: initCornerstone failed when the viewer mounted with three
\* slices; a key moved the index and no request was issued
InitFailedNoLoadWitness ==
    /\ lastEvent.type = "key"
    /\ initResults # <<>> /\ ~initResults[Len(initResults)].ok
    /\ Live(viewer) /\ viewer.initRan
    /\ totalSlices(viewer) = 3
    /\ viewer.currentIndex = 1
    /\ viewer.cur = NoLoad

\* C26: loading is never set without a live load: whenever no request of the
\* mounted viewer is outstanding that has not been discarded, loading is false.
LoadingHasLiveLoad ==
    (Live(viewer) /\ viewer.cur.status # "pending") => ~viewer.loading

(***************************************************************************)
(* Properties of initCornerstone (specification SpecInit)                  *)
(***************************************************************************)

Calls == 1..Len(initResults)
FirstOk == CHOOSE i \in Calls : initResults[i].ok /\ \A j \in 1..(i - 1) : ~initResults[j].ok

\* C5: once a call has returned {ok: true}, every later call returns
\* {ok: true} and registers nothing: the calls up to the first success are the
\* only ones that attempted setup, and the loader was registered once.
InitIdempotentOnSuccess ==
    /\ \A i, j \in Calls : (i < j /\ initResults[i].ok) => initResults[j] = OkResult
    /\ registerOk <= 1
    /\ (\E i \in Calls : initResults[i].ok) => (registerOk = 1 /\ registerCalls <= FirstOk)

\* C5 witness: three calls after a successful first one, one registration
InitRepeatedWitness ==
    /\ Len(initResults) >= 3
    /\ \A i \in Calls : initResults[i] = OkResult
    /\ registerCalls = 1
    /\ registerOk = 1

\* C6: once a call has failed, that call and every later call return
\* {ok: false} with the same message, and setup is not attempted again.
InitFailureMemoised ==
    /\ \A i, j \in Calls :
          (i <= j /\ ~initResults[i].ok)
             => (~initResults[j].ok /\ initResults[j].error = initResults[i].error)
    /\ (\E i \in Calls : ~initResults[i].ok) => registerCalls = 1

(***************************************************************************)
(* Properties of ReportViewer (specification SpecReport)                   *)
(***************************************************************************)

\* C7: in every reachable state the HTML rendered in view mode (editedHtml
\* when set, otherwise displayHtml), in the last committed render and in the
\* state the next render shows, is a string the allow-list sanitizer produces
\* and leaves as it is: it has no script element, no element outside the
\* allow-list and no attribute other than class.
ViewHtmlSanitized ==
    \A html \in {currentViewHtml(rv), currentViewHtml(rv.rendered)} :
        /\ IsString(html)
        /\ Safe(html)
        /\ SanitizeNodes(html, AllowedTags, AllowedAttr) = html

\* C13: a commit of the edit buffer passes exactly the sanitized buffer to
\* onReportChange, once; right after it the HTML on display is that sanitized
\* value, in the render of the commit and in the one that follows it, and
\* viewMode is true.
CommitShowsSanitized ==
    [][ rvEvent'.type = "saveEdit"
          => /\ rvEvent'.value = Sanitize(rv.rendered.editValue)
             /\ rv'.report = Sanitize(rv.rendered.editValue)
             /\ rv'.viewMode /\ rv'.rendered.viewMode
             /\ currentViewHtml(rv'.rendered) = Sanitize(rv.rendered.editValue)
             /\ currentViewHtml(rv') = Sanitize(rv.rendered.editValue) ]_vars

\* Empty, white-space-only and non-string values
BlankValues == {EmptyString, <<Text(<<" ">>)>>, <<Text(<<" ", "\n">>)>>, NullValue, NotAString}

\* C15: empty, white-space-only and non-string input gives the empty string
\* from markdownToHtmlAsync, markdownToHtml and enhanceReportHtml, also when
\* enhanceReportHtml is applied to the conversion of ""; the report effect of
\* a ReportViewer whose report became such a value sets displayHtml "",
\* editedHtml null and viewMode true, and the component is in that state
\* whenever its report is "" and the effect has run.
BlankGivesEmpty ==
    /\ [](\A x \in BlankValues :
             /\ \A marked \in MarkedOutcomes :
                    /\ markdownToHtmlAsync(x, marked) = EmptyString
                    /\ markdownToHtml(x, marked) = EmptyString
             /\ enhanceReportHtml(x) = EmptyString)
    /\ [](\A marked \in MarkedOutcomes :
             enhanceReportHtml(markdownToHtmlAsync(EmptyString, marked)) = EmptyString)
    /\ [][ (rv.effectPending /\ ~rv'.effectPending /\ rv.report \in BlankValues
             /\ rv'.report = rv.report)
              => (rv'.displayHtml = EmptyString /\ rv'.editedHtml = NullValue /\ rv'.viewMode) ]_vars
    /\ []((rv.report = EmptyString /\ ~rv.effectPending)
             => (rv.displayHtml = EmptyString /\ rv.editedHtml = NullValue /\ rv.viewMode))

\* C15 witness: a report was on display and edited, the host then set a
\* report of white space only and the report effect ran; nothing is displayed
BlankReportSetWitness ==
    /\ rvEvent.type = "effect"
    /\ rv.report = <<Text(<<" ">>)>>
    /\ rv.displayHtml = EmptyString
    /\ rv.editedHtml = NullValue
    /\ rv.viewMode
    /\ rv.editValue # EmptyString

(***************************************************************************)
(* Properties of reportFormat.js (specification SpecFormat)                *)
(***************************************************************************)

\* C8: enhanceReportHtml is idempotent: applied to its own output for a
\* sanitized document, it returns that output unchanged (no second container
\* around a heading, no duplicate class).
EnhanceIdempotent ==
    (fmt.fn = "enhanceReportHtml" /\ IsString(fmt.input) /\ Safe(fmt.input))
        => enhanceReportHtml(fmt.output) = fmt.output

\* C9: markdownToHtmlAsync and markdownToHtml are idempotent: applied to its
\* own output, each returns that output unchanged (marked.parse returning in
\* both calls).
ToSafeHtmlIdempotent ==
    (fmt.fn \in {"markdownToHtmlAsync", "markdownToHtml"} /\ fmt.marked = "returns"
        /\ IsSource(fmt.output))
        => Call(fmt.fn, fmt.output, "returns") = fmt.output

HasClass(n, c) == \E i \in DOMAIN n.cls : n.cls[i] = c
Abnormal(n) == HasClass(n, "report-level-abnormal") /\ ~HasClass(n, "report-level-normal")
Normal(n) == HasClass(n, "report-level-normal") /\ ~HasClass(n, "report-level-abnormal")

\* C10: level tinting tags the paragraph "L4-L5: moderate disc bulge causing
\* mild central canal stenosis" abnormal and the paragraph "L5-S1: disc space
\* is normal and unremarkable" normal, and gives a p or div whose text has no
\* level token neither class.
LevelTintingReference ==
    (fmt.fn = "enhanceReportHtml" /\ IsString(fmt.input) /\ Len(fmt.input) = 1) =>
        LET node == fmt.input[1]
            tinted == fmt.output[1]
        IN  /\ node = P(BulgeText) => Abnormal(tinted)
            /\ node = P(NormalText) => Normal(tinted)
            /\ (node.tag \in {"p", "div"} /\ ~Test(levelPattern, TrimText(textContent(node))))
                  => (~HasClass(tinted, "report-level-abnormal")
                      /\ ~HasClass(tinted, "report-level-normal"))

\* C25: a p or div whose trimmed text has a level token and fewer than 800
\* characters gets the class abnormal exactly when an abnormal keyword matches
\* and no normal keyword does, and the class normal in the three other cases;
\* an element of another tag, without a level token or with 800 characters or
\* more gets neither class.
TintingRule ==
    (fmt.fn = "enhanceReportHtml" /\ IsString(fmt.input) /\ Len(fmt.input) = 1
        /\ IsElement(fmt.input[1]) /\ fmt.input[1].cls = <<>>) =>
        LET node == fmt.input[1]
            tinted == fmt.output[1]
            text == TrimText(textContent(node))
            classified == /\ node.tag \in {"p", "div"}
                          /\ Test(levelPattern, text)
                          /\ StrLen(text) < 800
        IN  /\ tinted.tag = node.tag \/ tinted.kids[1].tag = "h2"
            /\ IF ~classified
                THEN ~HasClass(tinted, "report-level-abnormal")
                     /\ ~HasClass(tinted, "report-level-normal")
                ELSE IF Test(ABNORMAL_KEYWORDS, text) /\ ~Test(NORMAL_KEYWORDS, text)
                THEN Abnormal(tinted)
                ELSE Normal(tinted)

\* C25 witness: a paragraph of 799 characters with a level token and an
\* abnormal keyword was tinted abnormal
LongParagraphTintedWitness ==
    /\ fmt.fn = "enhanceReportHtml"
    /\ fmt.input = <<P(LongText(799))>>
    /\ StrLen(TrimText(textContent(fmt.input[1]))) = 799
    /\ Abnormal(fmt.output[1])

\* The document is a FINDINGS h2, paragraphs, an IMPRESSION h2, paragraphs
LaterH2s(s) == {k \in 2..Len(s) : s[k].tag = "h2"}
SecondH2(s) == CHOOSE k \in LaterH2s(s) : TRUE
SectionShape(s) ==
    /\ IsString(s) /\ Len(s) >= 4
    /\ wrapperClass(s[1]) = "report-section-findings" /\ s[1].tag = "h2"
    /\ Cardinality(LaterH2s(s)) = 1
    /\ SecondH2(s) \in 3..(Len(s) - 1)
    /\ wrapperClass(s[SecondH2(s)]) = "report-section-impression"
    /\ \A i \in DOMAIN s : i \notin {1, SecondH2(s)} => s[i].tag = "p"
\* The nodes of s without their classes
Plain(s) == [i \in DOMAIN s |-> [s[i] EXCEPT !.cls = <<>>]]

\* C11: for a document whose top-level nodes are a FINDINGS h2, paragraphs, an
\* IMPRESSION h2, paragraphs, enhanceReportHtml returns exactly two containers,
\* the findings one and then the impression one, each holding its heading
\* followed by exactly the paragraphs up to the next h2, in their order.
SectionsWrapped ==
    (fmt.fn = "enhanceReportHtml" /\ SectionShape(fmt.input)) =>
        LET k == SecondH2(fmt.input)
            out == fmt.output
        IN  /\ Len(out) = 2
            /\ out[1].tag = "div" /\ HasClass(out[1], "report-section-findings")
            /\ out[2].tag = "div" /\ HasClass(out[2], "report-section-impression")
            /\ Plain(out[1].kids) = Plain(SubSeq(fmt.input, 1, k - 1))
            /\ Plain(out[2].kids) = Plain(SubSeq(fmt.input, k, Len(fmt.input)))

\* C11 witness: a report with two paragraphs in each section was wrapped
TwoSectionsWrappedWitness ==
    /\ fmt.fn = "enhanceReportHtml"
    /\ SectionShape(fmt.input)
    /\ Len(fmt.input) = 6
    /\ Len(fmt.output) = 2
    /\ Len(fmt.output[1].kids) = 3

(***************************************************************************)
(* Properties of the documents ReportViewer displays (specification        *)
(* SpecReport)                                                             *)
(***************************************************************************)

\* No element of s has both level classes, and an element that has one has
\* the one its text gives
RECURSIVE TintMatchesText(_)
TintMatchesText(s) ==
    \A i \in DOMAIN s :
        \/ IsText(s[i])
        \/ /\ ~(HasClass(s[i], "report-level-normal") /\ HasClass(s[i], "report-level-abnormal"))
           /\ \A c \in {"report-level-normal", "report-level-abnormal"} :
                  HasClass(s[i], c) => LevelClass(s[i]) = c
           /\ TintMatchesText(s[i].kids)

\* C27: in every document the component displays no element has both
\* report-level-normal and report-level-abnormal, and the level class of an
\* element is the one its current text gives.
DisplayedTintMatchesText ==
    TintMatchesText(currentViewHtml(rv))

\* What the report effect displays for a report, once its conversion is done
DisplayOf(r) ==
    IF ~IsString(r) \/ trim(r) = EmptyString THEN EmptyString
    ELSE IF startsWithLt(trim(r)) THEN enhanceReportHtml(Sanitize(trim(r)))
    ELSE markdownToHtmlAsync(trim(r), "returns")

\* The promise of a conversion settled in this step
ConversionSettled ==
    rvEvent'.type \in {"conversionDone", "conversionFailed", "cancelledConversionDone"}

\* C28: the result of a conversion that was pending when the report changed is
\* discarded: when the conversion of an earlier report settles the display
\* stays as it is, and whenever the report effect has run and no conversion of
\* the current report is pending displayHtml is the document of the current
\* report, in whatever order the conversions complete.
StaleConversionDiscarded ==
    /\ [][ (ConversionSettled /\ rvEvent'.value # trim(rv.report))
              => ( /\ rv'.displayHtml = rv.displayHtml
                   /\ rv'.editedHtml = rv.editedHtml
                   /\ rv'.viewMode = rv.viewMode
                   /\ rv'.report = rv.report ) ]_vars
    /\ []((rv.conversion = NoConversion /\ ~rv.effectPending)
              => rv.displayHtml = DisplayOf(rv.report))

\* C29: an edit in progress is preserved until it is committed: in edit mode no
\* event other than saveEdit returns to view mode, changes the displayed
\* document or changes the report, and a change of the edit buffer changes
\* editValue only.
EditPreserved ==
    [][ (~rv.viewMode /\ ~rv.rendered.viewMode /\ rvEvent'.type # "saveEdit")
          => ( /\ ~rv'.viewMode
               /\ currentViewHtml(rv') = currentViewHtml(rv)
               /\ rvEvent'.type # "setReport" => rv'.report = rv.report
               /\ (rvEvent'.type = "handleEditChange" /\ ~rv.effectPending)
                     => rv' = [rv EXCEPT !.editValue = rv'.editValue,
                                         !.rendered.editValue = rv'.editValue] ) ]_vars

(***************************************************************************)
(* Properties of htmlToPlainText (specification SpecPlain)                 *)
(***************************************************************************)

\* C12: htmlToPlainText is stable: applied to its own output it returns that
\* output unchanged, for every input.
PlainTextStable == htmlToPlainText(plain.output) = plain.output

\* C12 witness: a string with a tag, a closing tag and an entity was
\* converted to a text that differs from it
PlainTextConvertedWitness ==
    /\ \E i \in DOMAIN plain.input : plain.input[i] = "nbsp;"
    /\ \E i \in DOMAIN plain.input : plain.input[i] = "/"
    /\ \E i \in DOMAIN plain.output : plain.output[i] = "\n"
    /\ plain.output # plain.input

(***************************************************************************)
(* Properties of the confidence panel (specification SpecConfidence)       *)
(***************************************************************************)

\* C16: a level that has no entry in structured.confidence.level_confidence
\* is treated as tier high: its badge reads High, and when every level that
\* has an entry is high the verification warning is not shown.
MissingLevelIsHigh ==
    LET c == levelConfidence(structured)
    IN  /\ \A l \in Levels \ DOMAIN c :
               PanelShown(rv.rendered, structured) => Label(structured, l) = "High"
        /\ (\A l \in DOMAIN c : c[l] = "high") => ~WarningShown(rv.rendered, structured)

(***************************************************************************)
(* Properties of the desktop shell (specification SpecShell)               *)
(***************************************************************************)

\* C17: a close request made while app.isQuitting is not set, by the user or
\* by app.quit(), does not close the window but hides it, and the window is
\* closed only once app.isQuitting is set, which only the tray's Quit does.
CloseHidesToTray ==
    /\ [][ (~shell.isQuitting /\ shell'.event \in {"close", "quit"})
              => (shell'.window = "hidden" /\ shell'.running = "running") ]_vars
    /\ [][ (shell.window # "closed" /\ shell'.window = "closed")
              => (shell.isQuitting /\ shell'.event \in {"close", "quit"}) ]_vars
    /\ [][ (shell'.isQuitting /\ ~shell.isQuitting) => shell'.event = "trayQuit" ]_vars
    /\ [](shell.window = "closed" => shell.isQuitting)

\* C17 witness: the user closed the visible window, which went to the tray
\* and came back, and closed it again
ClosedToTrayWitness ==
    /\ shell.event = "close"
    /\ shell.window = "hidden"
    /\ ~shell.isQuitting
    /\ shell.running = "running"
    /\ shell.tray

(***************************************************************************)
(* Properties of the desktop App (specification SpecApp)                   *)
(***************************************************************************)

\* C30: once every request has completed, the report and the structured
\* result on display are those fetched or analysed for the current study (or
\* there is none), never those of a study selected before.
ReportOfCurrentStudy ==
    app.requests = EmptyBag =>
        /\ app.state.report.study \in {NoStudy, app.state.studyId}
        /\ app.state.structured.study \in {NoStudy, app.state.studyId}

=============================================================================
